---- MODULE Spec2Model ----
(***************************************************************************)
(* A model of the PMRES weighted MaxSAT algorithm of Loandra               *)
(* (solver/Loandra/algorithms/Alg_PMRES.cc): stratified core-guided search *)
(* with the MaxRes transformation, hardening, and the switch to a          *)
(* linear (model-improving) search over a pseudo-boolean constraint.       *)
(*                                                                         *)
(* Variables are numbered 1..n; a literal is +v or -v, lit_Undef is 0; a   *)
(* clause is a sequence of literals.  Soft clauses are indexed 1..nSoft    *)
(* (the source's index i is i+1 here).  A model is [size, tv]: its length  *)
(* and the set of variables it sets to l_True.                             *)
(***************************************************************************)
EXTENDS Integers, Sequences, FiniteSets, TLC

VARIABLES
  cfg,                   \* the options of the run (lins, weightStrategy, ...)
  costComputingFormula,  \* the input formula, kept to compute model costs
  maxsat_formula,        \* the working formula (standardised in search())
  coreMapping,           \* assumption literal -> soft clause index
  solver,                \* the SAT oracle: variables, clauses, model, conflict
  enc,                   \* the PB / cardinality encoder
  assumptions,           \* the assumption vector handed to the oracle
  objFunction, coeffs,   \* the objective of the linear phase
  lbCost, ubCost, known_gap,
  bestModel,             \* PMRES::bestModel
  model,                 \* MaxSAT::model, the model saveModel keeps
  nbSatisfiable, nbCores, nbCurrentSoft, num_hardened, maxw_nothardened,
  vars_added, clauses_added, softs_added,
  inLinSearch,
  pc,                    \* position of search() in its control flow
  us,                    \* status returned by the last weightDisjointCores
  status,                \* status search() returned ("NONE" while running)
  release_build,         \* the run has passed a failed assert (NDEBUG build)
  hardened_weight        \* history: total weight zeroed by hardenClauses

vars == <<cfg, costComputingFormula, maxsat_formula, coreMapping, solver, enc,
          assumptions, objFunction, coeffs, lbCost, ubCost, known_gap,
          bestModel, model, nbSatisfiable, nbCores, nbCurrentSoft, num_hardened,
          maxw_nothardened, vars_added, clauses_added, softs_added,
          inLinSearch, pc, us, status, release_build, hardened_weight>>

-----------------------------------------------------------------------------
(* Bounds of the model *)

\* uint64_t is modelled as an unsigned word of WordBits bits
WordBits == 7
\* number of variables of the input formula
NOrigVars == 1
\* number of soft clauses of an input formula of the enumerated family
MaxSoft == 2
\* greatest weight of a soft clause of the enumerated family
MaxW == 2
\* number of hard clauses of an input formula of the enumerated family
MaxHard == 1
\* nbSatisfiable and nbCores saturate here (the code compares with 0 and 1)
MaxCount == 3

UINT64_MAX == 2^WordBits - 1
Wrap(x) == x % (2^WordBits)

lit_Undef == 0
_WEIGHT_NORMAL_ == "normal"
_WEIGHT_DIVERSIFY_ == "diversify"
_WEIGHTED_ == "weighted"
_UNWEIGHTED_ == "unweighted"

Min(a, b) == IF a < b THEN a ELSE b
Max(a, b) == IF a > b THEN a ELSE b
Sat1(n) == Min(n + 1, MaxCount)

-----------------------------------------------------------------------------
(* Literals, clauses, models *)

var(l) == IF l < 0 THEN -l ELSE l
sign(l) == l < 0
EmptyModel == [size |-> 0, tv |-> {}]

\* model[var(l)] makes l true; a variable beyond the model's length is not
\* l_True and not l_False (read as neither)
literalTrueInModel(l, m) ==
  /\ var(l) <= m.size
  /\ IF sign(l) THEN var(l) \notin m.tv ELSE var(l) \in m.tv

LitTrue(l, tv) == IF l > 0 THEN l \in tv ELSE (-l) \notin tv
ClauseSat(c, tv) == \E i \in 1..Len(c) : LitTrue(c[i], tv)

RECURSIVE SumTo(_, _)
SumTo(f, n) == IF n = 0 THEN 0 ELSE f[n] + SumTo(f, n - 1)
\* the sum of the sequence f
SumSeq(f) == SumTo(f, Len(f))

Range(f) == {f[i] : i \in 1..Len(f)}

RECURSIVE Perms(_)
\* the sequences that list the set S once each
Perms(S) ==
  IF S = {} THEN {<<>>}
  ELSE UNION {{<<x>> \o p : p \in Perms(S \ {x})} : x \in S}

-----------------------------------------------------------------------------
(* The SAT oracle (Solver): a clause database over nVars variables, the    *)
(* constraints the encoder has added (kept as the inequalities they        *)
(* encode), the model of the last satisfiable call and the conflict of the *)
(* last unsatisfiable one.                                                 *)

newSATSolver ==
  [nVars |-> 0, clauses |-> <<>>, pbs |-> <<>>,
   model |-> EmptyModel, conflict |-> <<>>]

\* value of the left-hand side of sum coeffs[i]*lits[i] <= rhs under tv
PBValue(pb, tv) ==
  SumSeq([i \in 1..Len(pb.lits) |->
            IF LitTrue(pb.lits[i], tv) THEN pb.coeffs[i] ELSE 0])

PBSat(pb, tv) == PBValue(pb, tv) <= pb.rhs

\* the assignments to the oracle's variables that satisfy its clauses, its
\* encoded constraints and the literals of lits
Models(sv, lits) ==
  LET units == {sv.clauses[i][1] :
                  i \in {j \in 1..Len(sv.clauses) : Len(sv.clauses[j]) = 1}}
      aux   == {sv.pbs[j].aux : j \in 1..Len(sv.pbs)}
      fixed == lits \cup units \cup aux
      pos   == {l \in fixed : l > 0}
      neg   == {-l : l \in {k \in fixed : k < 0}}
      free  == (1..sv.nVars) \ (pos \cup neg)
  IN IF pos \cap neg # {} THEN {}
     ELSE {tv \in {pos \cup x : x \in SUBSET free} :
             /\ \A i \in 1..Len(sv.clauses) : ClauseSat(sv.clauses[i], tv)
             /\ \A j \in 1..Len(sv.pbs) : PBSat(sv.pbs[j], tv)}

\* the literals that the assumption vector a asks to be true: its literals
\* and, when it carries outputs of the encoder (updatePBA), the bound they
\* enforce on the encoder's current constraint
AssumedPB(sv, a) ==
  IF a.bound < 0 \/ Len(sv.pbs) = 0 THEN sv
  ELSE [sv EXCEPT !.pbs[Len(sv.pbs)].rhs = Min(@, a.bound)]

NoAssumptions == [lits |-> <<>>, bound |-> -1]

\* the conflicts the oracle may return for the unsatisfiable assumptions a:
\* the negations of any subset of them that is unsatisfiable with the clauses
Conflicts(sv, a) ==
  UNION {Perms({-l : l \in S}) :
           S \in {T \in SUBSET Range(a.lits) : Models(AssumedPB(sv, a), T) = {}}}

\* searchSATSolver: every answer the oracle may give; budget says whether a
\* time budget is set, under which the oracle may give up (l_Undef)
searchSATSolver(sv, a, budget) ==
  LET M == Models(AssumedPB(sv, a), Range(a.lits)) IN
  (IF M # {}
     THEN {[res |-> "l_True", model |-> [size |-> sv.nVars, tv |-> m],
            conflict |-> <<>>] : m \in M}
     ELSE {[res |-> "l_False", model |-> EmptyModel, conflict |-> c] :
             c \in Conflicts(sv, a)})
  \cup (IF budget
          THEN {[res |-> "l_Undef", model |-> EmptyModel, conflict |-> <<>>]}
          ELSE {})

\* the oracle after the call answered o
Answered(sv, o) == [sv EXCEPT !.model = o.model, !.conflict = o.conflict]

-----------------------------------------------------------------------------
(* The formula store (MaxSATFormula) *)

nSoft(f) == Len(f.soft)
nHard(f) == Len(f.hard)
Soft(w, c, a) == [weight |-> w, clause |-> c, assumption_var |-> a]

\* standardizeMaxSATFormula: every soft clause C becomes the hard clause
\* C \/ l for a fresh literal l and the unit soft clause ~l
standardizeMaxSATFormula(f) ==
  [nVars |-> f.nVars + nSoft(f),
   hard |-> f.hard \o [i \in 1..nSoft(f) |->
                         Append(f.soft[i].clause, f.nVars + i)],
   soft |-> [i \in 1..nSoft(f) |->
               Soft(f.soft[i].weight, <<-(f.nVars + i)>>, lit_Undef)],
   maxWeight |-> f.maxWeight,
   problemType |-> f.problemType,
   sumWeights |-> f.sumWeights]

\* cost of a model: total weight of the input soft clauses it falsifies
computeCostModelPMRES(ccf, currentModel) ==
  SumSeq([i \in 1..nSoft(ccf) |->
            IF \E j \in 1..Len(ccf.soft[i].clause) :
                 literalTrueInModel(ccf.soft[i].clause[j], currentModel)
              THEN 0 ELSE ccf.soft[i].weight])

-----------------------------------------------------------------------------
(* The operations of PMRES, as functions on the state s of the solver      *)
(* object: a record with one field per variable of the module, and three   *)
(* marks of what happened on the way: af (an assert failed), crash (the    *)
(* code divided by zero or read beyond a vector) and diverge (a loop of    *)
(* the code cannot end).                                                   *)

nRealSoft(s) == nSoft(s.maxsat_formula) - s.num_hardened

\* a shouldUpdate that finds nothing to hand over
shouldUpdateNever(s) == FALSE
\* the comparison of shouldUpdate, turned round
shouldUpdateReversed(s) == s.clauses_added > nHard(s.maxsat_formula)
shouldUpdate(s) == s.clauses_added < nHard(s.maxsat_formula)

\* a hardening that is lazy whatever the options
hardenLazilyAlways(s) == TRUE
hardenLazily(s) == ~s.cfg.delete_before_lin /\ ~s.cfg.varyingres

\* assert(c): a failed assert is recorded; a release build goes on
assert(s, c) == IF c THEN s ELSE [s EXCEPT !.af = TRUE]
\* an assert that guards a read beyond a vector or of lit_Undef
guard(s, c) == IF c THEN s ELSE [s EXCEPT !.af = TRUE, !.crash = TRUE]

\* an updateSolver that hands over the newest hard clause first
updateSolverNewestFirst(s) ==
  LET f == s.maxsat_formula IN
  [s EXCEPT
     !.solver.nVars = @ + Max(0, f.nVars - s.vars_added),
     !.solver.clauses =
        @ \o [i \in 1..(nHard(f) - s.clauses_added) |-> f.hard[nHard(f) + 1 - i]],
     !.vars_added = f.nVars,
     !.clauses_added = nHard(f),
     !.softs_added = nSoft(f)]

\* updateSolver: new variables and new hard clauses go to the oracle, in
\* the order of the formula store
updateSolver(s) ==
  LET f == s.maxsat_formula IN
  [s EXCEPT
     !.solver.nVars = @ + Max(0, f.nVars - s.vars_added),
     !.solver.clauses = @ \o SubSeq(f.hard, s.clauses_added + 1, nHard(f)),
     !.vars_added = f.nVars,
     !.clauses_added = nHard(f),
     !.softs_added = nSoft(f)]

\* a resetSolver that fills the oracle it has, without a new one
resetSolverKeepsOracle(s) ==
  updateSolver([s EXCEPT !.clauses_added = 0,
                         !.softs_added = 0,
                         !.vars_added = 0])

\* resetSolver: a new oracle, filled from the formula store
resetSolver(s) ==
  updateSolver([s EXCEPT !.solver = newSATSolver,
                         !.clauses_added = 0,
                         !.softs_added = 0,
                         !.vars_added = 0])

RECURSIVE findNextWeightFrom(_, _, _, _)
findNextWeightFrom(soft, weight, i, nextWeight) ==
  IF i > Len(soft) THEN nextWeight
  ELSE findNextWeightFrom(soft, weight, i + 1,
         IF soft[i].weight > nextWeight /\ soft[i].weight < weight
           THEN soft[i].weight ELSE nextWeight)

\* a next weight that is the one below weight, whether a soft clause has it
\* or not
findNextWeightBelow(s, weight) == Max(1, weight - 1)
\* a findNextWeight that takes a soft clause of the weight itself
findNextWeightAtMost(s, weight) ==
  findNextWeightFrom(s.maxsat_formula.soft, weight + 1, 1, 1)
\* findNextWeight: the loop over the soft clauses, from nextWeight = 1
findNextWeight(s, weight) ==
  findNextWeightFrom(s.maxsat_formula.soft, weight, 1, 1)

\* the soft clauses of weight >= w, and the set of their weights
SoftsAbove(s, w) ==
  {i \in 1..nSoft(s.maxsat_formula) : s.maxsat_formula.soft[i].weight >= w}
WeightsAbove(s, w) ==
  {s.maxsat_formula.soft[i].weight : i \in SoftsAbove(s, w)}

\* a threshold of 3 in the place of alpha
RatioAboveThree(nbClauses, nbWeights) ==
  nbWeights > 0 /\ nbClauses > 3 * nbWeights

\* (float)nbClauses / nbWeights.size() > alpha, with alpha = 1.25; 0/0 is
\* NaN, which is not greater than alpha
RatioAboveAlpha(nbClauses, nbWeights) ==
  nbWeights > 0 /\ 4 * nbClauses > 5 * nbWeights

RECURSIVE findNextWeightDiversityLoop(_, _, _)
\* one round of the for (;;) of findNextWeightDiversity; the result is
\* [w, diverge]: the loop cannot end once a round leaves nextWeight and
\* findNext as they were
findNextWeightDiversityLoop(s, weight, findNext) ==
  LET nextWeight == IF s.nbSatisfiable > 1 \/ findNext
                      THEN findNextWeight(s, weight) ELSE weight
      nbClauses == Cardinality(SoftsAbove(s, nextWeight))
      nbWeights == Cardinality(WeightsAbove(s, nextWeight))
      next == (s.nbSatisfiable = 1 /\ ~findNext) \/ findNext
  IN IF \/ (RatioAboveAlpha(nbClauses, nbWeights)
              /\ nbClauses > s.nbCurrentSoft)
        \/ nbClauses = nRealSoft(s)
       THEN [w |-> nextWeight, diverge |-> FALSE]
     ELSE IF nextWeight = weight /\ next = findNext
       THEN [w |-> nextWeight, diverge |-> TRUE]
     ELSE findNextWeightDiversityLoop(s, nextWeight, next)

findNextWeightDiversity(s, weight) ==
  findNextWeightDiversityLoop(s, weight, FALSE)

enoughSoftAboveWeight(s, weightCand) ==
  \/ RatioAboveAlpha(Cardinality(SoftsAbove(s, weightCand)),
                     Cardinality(WeightsAbove(s, weightCand)))
  \/ Cardinality(SoftsAbove(s, weightCand)) = nRealSoft(s)

RECURSIVE divideUntilEnough(_, _)
\* while (!enoughSoftAboveWeight(w)) w /= varresFactor; at w = 0 the
\* division changes nothing any more
divideUntilEnough(s, w) ==
  IF enoughSoftAboveWeight(s, w) THEN [w |-> w, diverge |-> FALSE]
  ELSE IF w = 0 THEN [w |-> 0, diverge |-> TRUE]
  ELSE divideUntilEnough(s, w \div s.cfg.varresFactor)

setMaximumWeight(s, r) ==
  [s EXCEPT !.maxsat_formula.maxWeight = r.w,
            !.diverge = @ \/ r.diverge]

updateDivisionFactor(s) ==
  setMaximumWeight(assert(s, s.nbSatisfiable > 0),
    divideUntilEnough(s, s.maxsat_formula.maxWeight \div s.cfg.varresFactor))

\* updateCurrentWeight(weightStrategy)
\* an updateCurrentWeight that leaves the working weight as it is
updateCurrentWeightStays(s) == s

updateCurrentWeight(s) ==
  IF ~s.cfg.varyingresCG THEN
    IF s.cfg.weightStrategy = _WEIGHT_NORMAL_
      THEN [s EXCEPT !.maxsat_formula.maxWeight =
                        findNextWeight(s, s.maxsat_formula.maxWeight)]
      ELSE setMaximumWeight(assert(s, s.nbSatisfiable > 0),
             findNextWeightDiversity(s, s.maxsat_formula.maxWeight))
  ELSE updateDivisionFactor(s)

moreThanWeight(s, weightCand) == Cardinality(SoftsAbove(s, weightCand))

RECURSIVE divideWhileSameToZero(_, _)
\* the loop of updateDivisionFactorLinear without its stop at 1
divideWhileSameToZero(s, nextFactor) ==
  IF moreThanWeight(s, nextFactor) = s.nbCurrentSoft /\ nextFactor > 0
    THEN divideWhileSameToZero(s, nextFactor \div s.cfg.varresFactor)
    ELSE nextFactor

RECURSIVE divideWhileSame(_, _)
divideWhileSame(s, nextFactor) ==
  IF moreThanWeight(s, nextFactor) = s.nbCurrentSoft /\ nextFactor > 1
    THEN divideWhileSame(s, nextFactor \div s.cfg.varresFactor)
    ELSE nextFactor

updateDivisionFactorLinear(s) ==
  [s EXCEPT !.maxsat_formula.maxWeight =
              divideWhileSame(s, @ \div s.cfg.varresFactor)]

\* resetMaximumWeight: the greatest weight of a soft clause, at least 1
MaxSoftWeight(s) ==
  LET W == {s.maxsat_formula.soft[i].weight :
              i \in 1..nSoft(s.maxsat_formula)} \cup {1}
  IN CHOOSE w \in W : \A v \in W : v <= w

RECURSIVE DigitCount(_, _)
\* counter of initializeDivisionFactor: the divisions that take maxW to 0
DigitCount(maxW, factor) ==
  IF maxW > 0 THEN 1 + DigitCount(maxW \div factor, factor) ELSE 0

initializeDivisionFactor(s, varres) ==
  IF ~varres THEN [s EXCEPT !.maxsat_formula.maxWeight = 1]
  ELSE LET maxW == MaxSoftWeight(s)
           weightCand == s.cfg.varresFactor
                           ^ (DigitCount(maxW, s.cfg.varresFactor) - 1)
       IN setMaximumWeight(assert(s, s.nbSatisfiable > 0),
                           divideUntilEnough(s, weightCand))

-----------------------------------------------------------------------------
(* Core management *)

\* coreMapping[l]; std::map gives a key it does not hold the index 0
CoreIndex(s, l) ==
  IF l \in DOMAIN s.coreMapping THEN s.coreMapping[l] ELSE 1

RECURSIVE MinWeightFrom(_, _, _, _)
MinWeightFrom(s, conflict, i, coreCost) ==
  IF i > Len(conflict) THEN coreCost
  ELSE LET w == s.maxsat_formula.soft[CoreIndex(s, conflict[i])].weight
       IN MinWeightFrom(s, conflict, i + 1,
                        IF w < coreCost THEN w ELSE coreCost)

\* a cost of the core that is the weight of its first soft clause
computeCostCoreFirst(s, conflict) ==
  IF s.maxsat_formula.problemType = _UNWEIGHTED_ THEN 1
  ELSE s.maxsat_formula.soft[CoreIndex(s, conflict[1])].weight

computeCostCore(s, conflict) ==
  IF s.maxsat_formula.problemType = _UNWEIGHTED_ THEN 1
  ELSE MinWeightFrom(s, conflict, 1, UINT64_MAX)

\* addSoftClauseAndAssumptionVar with the weight 1 for the new soft clause
addSoftClauseWeightOne(s, weight, clause) ==
  LET l == s.maxsat_formula.nVars + 1 IN
  [s EXCEPT
     !.maxsat_formula.nVars = l,
     !.maxsat_formula.hard = Append(@, Append(clause, l)),
     !.maxsat_formula.soft = Append(@, Soft(1, <<-l>>, l)),
     !.coreMapping = [k \in DOMAIN @ \cup {l} |->
                        IF k = l THEN nSoft(s.maxsat_formula) + 1 ELSE @[k]]]

\* addSoftClauseAndAssumptionVar: a fresh literal l closes the clause, which
\* becomes hard; the new soft clause is the unit ~l with assumption l
addSoftClauseAndAssumptionVar(s, weight, clause) ==
  LET l == s.maxsat_formula.nVars + 1 IN
  [s EXCEPT
     !.maxsat_formula.nVars = l,
     !.maxsat_formula.hard = Append(@, Append(clause, l)),
     !.maxsat_formula.soft = Append(@, Soft(weight, <<-l>>, l)),
     !.coreMapping = [k \in DOMAIN @ \cup {l} |->
                        IF k = l THEN nSoft(s.maxsat_formula) + 1 ELSE @[k]]]

RECURSIVE MaxResChainBothWays(_, _, _, _)
\* the clauses of the loop with { ~d_i, d_(i+1), b_(i+1) } in every mode
MaxResChainBothWays(core, dVars, full, j) ==
  IF j > Len(core) - 2 THEN <<>>
  ELSE <<<<-dVars[j], dVars[j + 1], core[j + 1]>>,
         <<dVars[j], -core[j + 1]>>, <<dVars[j], -dVars[j + 1]>>>>
       \o MaxResChainBothWays(core, dVars, full, j + 1)

RECURSIVE MaxResChain(_, _, _, _)
\* the clauses of the loop for (i = 0; i < n-2; i++), from round j
MaxResChain(core, dVars, full, j) ==
  IF j > Len(core) - 2 THEN <<>>
  ELSE (IF full THEN <<<<-dVars[j], dVars[j + 1], core[j + 1]>>>> ELSE <<>>)
       \o <<<<dVars[j], -core[j + 1]>>, <<dVars[j], -dVars[j + 1]>>>>
       \o MaxResChain(core, dVars, full, j + 1)

\* MaxResHard without the clause { d_(n-2), ~b_(n-1) }
MaxResHardMissing(core, dVars, lins) ==
  LET n == Len(core) IN
  (IF lins = 0 THEN <<core>> ELSE <<>>)
  \o (IF n > 2 THEN MaxResChain(core, dVars, lins = 0, 1) ELSE <<>>)
  \o (IF n > 1 THEN <<<<-dVars[n - 1], core[n]>>>> ELSE <<>>)

\* the hard clauses encodeMaxRes adds before the new soft clauses
MaxResHard(core, dVars, lins) ==
  LET n == Len(core) IN
  (IF lins = 0 THEN <<core>> ELSE <<>>)
  \o (IF n > 2 THEN MaxResChain(core, dVars, lins = 0, 1) ELSE <<>>)
  \o (IF n > 1 THEN <<<<dVars[n - 1], -core[n]>>, <<-dVars[n - 1], core[n]>>>>
               ELSE <<>>)

RECURSIVE MaxResSoft(_, _, _, _, _)
\* the loop that adds the soft clauses { ~b_i, ~d_i }, from round j
MaxResSoft(s, core, dVars, weightCore, j) ==
  IF j > Len(core) - 1 THEN s
  ELSE MaxResSoft(
         addSoftClauseAndAssumptionVar(s, weightCore,
                                       <<-core[j], -dVars[j]>>),
         core, dVars, weightCore, j + 1)

\* encodeMaxRes with one d-variable for each literal of the core
encodeMaxResOnePerLiteral(s, core, weightCore) ==
  LET n == Len(core)
      dVars == [i \in 1..(n - 1) |-> s.maxsat_formula.nVars + i]
      s1 == [s EXCEPT
               !.maxsat_formula.nVars = @ + n,
               !.maxsat_formula.hard = @ \o MaxResHard(core, dVars, s.cfg.lins)]
  IN MaxResSoft(assert(s1, n # 0), core, dVars, weightCore, 1)

encodeMaxRes(s, core, weightCore) ==
  LET n == Len(core)
      dVars == [i \in 1..(n - 1) |-> s.maxsat_formula.nVars + i]
      s1 == [s EXCEPT
               !.maxsat_formula.nVars = @ + Max(0, n - 1),
               !.maxsat_formula.hard = @ \o MaxResHard(core, dVars, s.cfg.lins)]
  IN MaxResSoft(assert(s1, n # 0), core, dVars, weightCore, 1)

RECURSIVE relaxCoreKeepsAssumption(_, _, _, _)
\* relaxCoreFrom that leaves the assumption literal of a clause whose weight
\* has reached 0
relaxCoreKeepsAssumption(s, conflict, weightCore, i) ==
  IF i > Len(conflict) THEN s
  ELSE LET indexSoft == CoreIndex(s, conflict[i])
           w == Wrap(s.maxsat_formula.soft[indexSoft].weight - weightCore)
           s1 == assert(s, s.maxsat_formula.soft[indexSoft].weight >= weightCore)
           s2 == [s1 EXCEPT !.maxsat_formula.soft[indexSoft].weight = w]
       IN relaxCoreKeepsAssumption(
            IF w = 0 THEN [s2 EXCEPT !.num_hardened = @ + 1] ELSE s2,
            conflict, weightCore, i + 1)

RECURSIVE relaxCoreFrom(_, _, _, _)
\* the loop of relaxCore over the conflict, from position i
relaxCoreFrom(s, conflict, weightCore, i) ==
  IF i > Len(conflict) THEN s
  ELSE LET indexSoft == CoreIndex(s, conflict[i])
           w == Wrap(s.maxsat_formula.soft[indexSoft].weight - weightCore)
           s1 == assert(s, s.maxsat_formula.soft[indexSoft].weight >= weightCore)
           s2 == [s1 EXCEPT !.maxsat_formula.soft[indexSoft].weight = w]
       IN relaxCoreFrom(
            IF w = 0
              THEN [s2 EXCEPT
                      !.maxsat_formula.soft[indexSoft].assumption_var = lit_Undef,
                      !.num_hardened = @ + 1]
              ELSE s2,
            conflict, weightCore, i + 1)

\* relaxCore that does not count the clauses it drives to weight 0
relaxCoreUncounted(s, conflict, weightCore) ==
  [encodeMaxRes(
     relaxCoreFrom(assert(s, Len(conflict) > 0 /\ weightCore > 0),
                   conflict, weightCore, 1),
     conflict, weightCore) EXCEPT !.num_hardened = s.num_hardened]

relaxCore(s, conflict, weightCore) ==
  encodeMaxRes(
    relaxCoreFrom(assert(s, Len(conflict) > 0 /\ weightCore > 0),
                  conflict, weightCore, 1),
    conflict, weightCore)

-----------------------------------------------------------------------------
(* Bounds, models, hardening *)

\* the test lbCost == ubCost of the three drivers
boundsCross(s) == s.lbCost <= s.ubCost
boundsMeet(s) == s.lbCost = s.ubCost

checkGap(s) ==
  LET currentGap == Wrap(s.ubCost - s.lbCost) IN
  IF currentGap < s.known_gap THEN [s EXCEPT !.known_gap = currentGap] ELSE s

\* computeCostModelPMRES(solver->model).  The oracle clears its model when it
\* answers l_False; the code then reads the cleared vector beyond its length:
\* what it finds there (s.stale: the variables it finds l_True) is any value,
\* after the assert on the model's length has failed
StaleRead(s) ==
  s.solver.model.size = 0 /\ nSoft(s.costComputingFormula) > 0
ModelCost(s) ==
  computeCostModelPMRES(
    s.costComputingFormula,
    IF StaleRead(s)
      THEN [size |-> s.costComputingFormula.nVars, tv |-> s.stale]
      ELSE s.solver.model)
ModelRead(s) ==
  IF StaleRead(s) THEN [s EXCEPT !.af = TRUE, !.ub = TRUE]
  ELSE assert(s, s.solver.model.size # 0)
saveModel(s) == [s EXCEPT !.model = s.solver.model]

\* checkModel without its branch for a longer model of the same cost
checkModelBetterOnly(s) ==
  LET modelCost == ModelCost(s)
  IN IF modelCost < s.ubCost
       THEN checkGap([saveModel(ModelRead(s))
                        EXCEPT !.ubCost = modelCost,
                               !.bestModel = s.solver.model])
       ELSE ModelRead(s)

\* checkModel without the test isBetter
checkModelAlways(s) ==
  checkGap([saveModel(ModelRead(s)) EXCEPT !.ubCost = ModelCost(s),
                                           !.bestModel = s.solver.model])
\* checkModel without the copies of a better model
checkModelNoSave(s) ==
  LET modelCost == ModelCost(s)
      s1 == IF modelCost < s.ubCost
              THEN checkGap([ModelRead(s) EXCEPT !.ubCost = modelCost])
              ELSE ModelRead(s)
  IN IF modelCost = s1.ubCost /\ s.solver.model.size > s1.bestModel.size
       THEN [saveModel(s1) EXCEPT !.bestModel = s.solver.model]
       ELSE s1

checkModel(s) ==
  LET modelCost == ModelCost(s)
      isBetter == modelCost < s.ubCost
      s1 == IF isBetter
              THEN checkGap([saveModel(ModelRead(s))
                               EXCEPT !.ubCost = modelCost,
                                      !.bestModel = s.solver.model])
              ELSE ModelRead(s)
  IN IF modelCost = s1.ubCost /\ s.solver.model.size > s1.bestModel.size
       THEN [saveModel(s1) EXCEPT !.bestModel = s.solver.model]
       ELSE s1

RECURSIVE hardenClausesFrom(_, _, _)
\* the loop of hardenClauses over the soft clauses i < softs_added
hardenClausesFrom(s, bound, i) ==
  IF i > s.softs_added THEN s
  ELSE
    LET c == s.maxsat_formula.soft[i]
        satisfied == c.weight = bound
                     /\ literalTrueInModel(c.clause[1], s.solver.model)
        s0 == IF c.weight = bound
                THEN guard(s, var(c.clause[1]) <= s.solver.model.size)
                ELSE s
    IN IF c.weight > bound \/ (c.weight = bound /\ satisfied)
         THEN LET s1 == guard(s0, c.assumption_var # lit_Undef)
                  clause == <<-c.assumption_var>>
                  s2 == [s1 EXCEPT
                           !.solver.clauses = Append(@, clause),
                           !.maxsat_formula.hard =
                              IF hardenLazily(s) THEN @ ELSE Append(@, clause),
                           !.maxsat_formula.soft[i].weight = 0,
                           !.maxsat_formula.soft[i].assumption_var = lit_Undef,
                           !.num_hardened = @ + 1,
                           !.hardened_weight = @ + c.weight]
              IN hardenClausesFrom(s2, bound, i + 1)
         ELSE hardenClausesFrom(
                IF c.weight > s0.maxw_nothardened
                  THEN [s0 EXCEPT !.maxw_nothardened = c.weight] ELSE s0,
                bound, i + 1)

\* hardenClauses without maxw_nothardened = 0 at its start
hardenClausesKeepsMax(s) ==
  hardenClausesFrom(s, Wrap(s.ubCost - s.lbCost), 1)

hardenClauses(s) ==
  hardenClausesFrom([s EXCEPT !.maxw_nothardened = 0],
                    Wrap(s.ubCost - s.lbCost), 1)

\* a stratum that leaves out the soft clauses of the working weight itself
InStratumAbove(s, i) ==
  s.maxsat_formula.soft[i].weight > s.maxsat_formula.maxWeight
\* setAssumptions: the soft clauses i < softs_added of the current stratum
InStratum(s, i) ==
  LET w == s.maxsat_formula.soft[i].weight
      m == s.maxsat_formula.maxWeight
  IN IF s.cfg.varyingresCG THEN m # 0 /\ w \div m > 0 ELSE w >= m

setAssumptions(s) ==
  LET I == {i \in 1..s.softs_added : InStratum(s, i)}
      picked == [k \in 1..Cardinality(I) |->
                   CHOOSE i \in I : Cardinality({j \in I : j < i}) = k - 1]
      s1 == [s EXCEPT
               !.crash = @ \/ (s.cfg.varyingresCG /\ s.softs_added > 0
                                 /\ s.maxsat_formula.maxWeight = 0),
               !.nbCurrentSoft = Cardinality(I),
               !.assumptions =
                  [lits |-> [k \in 1..Cardinality(I) |->
                               -s.maxsat_formula.soft[picked[k]].assumption_var],
                   bound |-> -1]]
  IN guard(s1, \A i \in I : s.maxsat_formula.soft[i].assumption_var # lit_Undef)

-----------------------------------------------------------------------------
(* The search methods.  Each gives the set of its outcomes: the state it   *)
(* leaves, where search() goes on and the status it has returned.          *)

Out(s, p, st) == [s |-> s, pc |-> p, status |-> st]

\* initAssumptions
initAssumptions(s) ==
  LET f == s.maxsat_formula IN
  [s EXCEPT
     !.maxsat_formula.soft =
        [i \in 1..nSoft(f) |->
           [f.soft[i] EXCEPT !.assumption_var = -f.soft[i].clause[1]]],
     !.coreMapping =
        [l \in {-f.soft[i].clause[1] : i \in 1..nSoft(f)} |->
           CHOOSE i \in 1..nSoft(f) :
             /\ -f.soft[i].clause[1] = l
             /\ \A j \in 1..nSoft(f) : -f.soft[j].clause[1] = l => j <= i]]

\* search() up to the end of setup(): standardisation, initAssumptions, a new
\* oracle, unsatSearch and the first working weight
setup(s) ==
  LET s1 == [s EXCEPT
               !.maxsat_formula = standardizeMaxSATFormula(@),
               !.maxw_nothardened = s.maxsat_formula.sumWeights,
               !.inLinSearch = (s.cfg.lins = 2)]
      s2 == updateSolver([initAssumptions(s1) EXCEPT !.solver = newSATSolver])
  IN {LET s3 == [s2 EXCEPT !.solver = Answered(@, o)]
          s4 == IF o.res = "l_False"
                  THEN [s3 EXCEPT !.nbCores = Sat1(@)]
                  ELSE checkModel([s3 EXCEPT !.nbSatisfiable = Sat1(@)])
          s5 == IF s.cfg.varyingresCG
                  THEN initializeDivisionFactor(s4, TRUE)
                  ELSE updateCurrentWeight(s4)
      IN IF o.res = "l_False"
           THEN Out(s5, "done", "UNSATISFIABLE")
           ELSE Out(s5, IF s.cfg.lins = 2 THEN "linearSearch"
                                          ELSE "weightDisjointCores", "NONE")
      : o \in searchSATSolver(s2.solver, NoAssumptions, FALSE)}

\* the branch res == l_False of weightDisjointCores: the core that the
\* oracle has left in solver->conflict is counted into lbCost and relaxed
coreFound(s) ==
  LET s1 == assert([s EXCEPT !.nbCores = Sat1(@)], Len(s.solver.conflict) > 0)
      coreCost == computeCostCore(s1, s.solver.conflict)
      s2 == checkGap([s1 EXCEPT !.lbCost = Wrap(@ + coreCost)])
  IN relaxCore(s2, s.solver.conflict, coreCost)

\* one round of the for (;;) of weightDisjointCores
weightDisjointCores(s) ==
  LET limited == s.cfg.timeLimitCores
      s1 == setAssumptions(s)
  IN (IF limited THEN {Out([s EXCEPT !.us = "UNKNOWN"], "return", "NONE")}
                 ELSE {})
     \cup
     {LET s2 == [s1 EXCEPT !.solver = Answered(@, o)] IN
      IF o.res = "l_Undef" THEN Out([s2 EXCEPT !.us = "UNKNOWN"], "return", "NONE")
      ELSE IF o.res = "l_True"
        THEN Out([s2 EXCEPT !.us = "SATISFIABLE"], "return", "NONE")
      ELSE
        LET s5 == coreFound(s2)
        IN IF s5.lbCost > s5.ubCost
             THEN Out([s5 EXCEPT !.us = "ERROR"], "return", "NONE")
             ELSE Out(s5, "weightDisjointCores", "NONE")
      : o \in searchSATSolver(s1.solver, s1.assumptions, limited)}

\* the part of both core-guided drivers after the bound checks: hardening
HardenIfGap(s) ==
  IF Wrap(s.ubCost - s.lbCost) < s.maxw_nothardened THEN hardenClauses(s) ELSE s

\* weightSearch, from the return of weightDisjointCores to the next call
weightSearch(s) ==
  LET modelCost == ModelCost(s)
      s1 == ModelRead([s EXCEPT !.nbSatisfiable = Sat1(@)])
      s2 == IF modelCost < s1.ubCost
              THEN saveModel([s1 EXCEPT !.ubCost = modelCost]) ELSE s1
  IN IF boundsMeet(s2) THEN {Out(s2, "done", "OPTIMUM")}
     ELSE IF s2.nbCurrentSoft = nRealSoft(s2)
       THEN LET s3 == assert(s2, modelCost = s2.lbCost) IN
            {Out(IF s3.lbCost < s3.ubCost
                   THEN saveModel([s3 EXCEPT !.ubCost = s3.lbCost]) ELSE s3,
                 "done", "OPTIMUM")}
     ELSE LET s3 == HardenIfGap(s2) IN
          {Out(IF shouldUpdate(s3) THEN updateSolver(s3)
                                   ELSE updateCurrentWeight(s3),
               "weightDisjointCores", "NONE")}

\* a test of the working weight that never finds it at 1
doneWithCoresNever(s) == s.maxsat_formula.maxWeight = 0
\* getMaximumWeight() == 1: the core-guided phase of the hybrid search ends
doneWithCores(s) == s.maxsat_formula.maxWeight = 1

\* an interruption that ends the search with the status UNKNOWN
interruptedReturns(s) == {Out(s, "done", "UNKNOWN")}
\* us == _UNKNOWN_ in coreGuidedLinearSearch: the core-guided phase was
\* interrupted; what the store holds goes to the oracle and the linear
\* search begins
interrupted(s) ==
  {Out(IF shouldUpdate(s) THEN updateSolver(s) ELSE s, "linearSearch", "NONE")}

\* coreGuidedLinearSearch, from the return of weightDisjointCores to the
\* next call, to linearSearch or to the end
coreGuidedLinearSearch(s) ==
  IF s.us = "UNKNOWN" THEN interrupted(s)
  ELSE
    LET s1 == checkModel([assert(s, s.us = "SATISFIABLE")
                            EXCEPT !.nbSatisfiable = Sat1(@)])
    IN IF boundsMeet(s1) THEN {Out(s1, "done", "OPTIMUM")}
       ELSE IF s1.nbCurrentSoft = nRealSoft(s1)
         THEN LET s2 == assert(s1, ModelCost(s1) = s1.lbCost) IN
              {Out(IF s2.lbCost < s2.ubCost
                     THEN saveModel([s2 EXCEPT !.ubCost = s2.lbCost]) ELSE s2,
                   "done", "OPTIMUM")}
       ELSE
         LET s2 == HardenIfGap(s1) IN
         IF s.cfg.relaxBeforeStrat THEN
           IF shouldUpdate(s2)
             THEN {Out(updateSolver(s2), "weightDisjointCores", "NONE")}
           ELSE IF s2.maxsat_formula.maxWeight > 1
             THEN LET s3 == updateCurrentWeight(s2) IN
                  {Out(s3, IF doneWithCores(s3) /\ ~s3.diverge
                             THEN "linearSearch" ELSE "weightDisjointCores",
                       "NONE")}
           ELSE {Out(s2, "done", "ERROR")}
         ELSE
           LET s3 == IF s2.maxsat_formula.maxWeight > 1
                       THEN updateCurrentWeight(s2) ELSE s2
           IN IF doneWithCores(s3) /\ ~s3.diverge
                THEN {Out(IF shouldUpdate(s3) THEN updateSolver(s3) ELSE s3,
                          "linearSearch", "NONE")}
                ELSE {Out(s3, "weightDisjointCores", "NONE")}

-----------------------------------------------------------------------------
(* The linear phase *)

\* the literals that fix the first n variables as the model m has them
ModelLits(m, n) == [i \in 1..n |-> IF i \in m.tv THEN i ELSE -i]

\* sum of weight / max_weight over the soft clauses the full model m falsifies
ReducedCost(s, m) ==
  LET f == s.maxsat_formula IN
  SumSeq([i \in 1..nSoft(f) |->
            IF literalTrueInModel(f.soft[i].clause[1], m) \/ f.maxWeight = 0
              THEN 0 ELSE f.soft[i].weight \div f.maxWeight])

\* var(last soft clause's literal) < model.size()
haveModel(s, m) ==
  /\ nSoft(s.maxsat_formula) > 0
  /\ var(s.maxsat_formula.soft[nSoft(s.maxsat_formula)].clause[1]) <= m.size

\* computeCostReducedWeights(inputModel), of bestModel or of solver->model:
\* the set of [s, cost]; a model that is too short is first completed by
\* getModel, an oracle call under the model's own literals, and checkModel
computeCostReducedWeights(s, ofBest) ==
  LET inputModel == IF ofBest THEN s.bestModel ELSE s.solver.model
      s0 == guard(guard(assert(s, inputModel.size # 0),
                        nSoft(s.maxsat_formula) > 0),
                  s.maxsat_formula.maxWeight # 0)
  IN IF haveModel(s0, inputModel) \/ nSoft(s.maxsat_formula) = 0
       THEN {[s |-> s0, cost |-> ReducedCost(s0, inputModel)]}
       ELSE {LET s1 == checkModel(assert([s0 EXCEPT !.solver = Answered(@, o)],
                                         o.res = "l_True"))
                 s2 == guard(s1, haveModel(s1, s1.solver.model))
             IN [s |-> s2, cost |-> ReducedCost(s2, s1.solver.model)]
             : o \in searchSATSolver(
                       s0.solver,
                       [lits |-> ModelLits(inputModel, inputModel.size),
                        bound |-> -1],
                       FALSE)}

\* initRelaxation: the objective of the current resolution
initRelaxation(s) ==
  LET f == s.maxsat_formula
      I == {i \in 1..nSoft(f) :
              f.maxWeight # 0 /\ f.soft[i].weight \div f.maxWeight > 0}
      picked == [k \in 1..Cardinality(I) |->
                   CHOOSE i \in I : Cardinality({j \in I : j < i}) = k - 1]
      reduced == [k \in 1..Cardinality(I) |->
                    f.soft[picked[k]].weight \div f.maxWeight]
      unweighted == /\ \A k \in 1..Cardinality(I) : reduced[k] = reduced[1]
                    /\ ~s.cfg.incrementalVarres
  IN guard(guard([s EXCEPT
                    !.objFunction = [k \in 1..Cardinality(I) |->
                                       f.soft[picked[k]].assumption_var],
                    !.coeffs = reduced,
                    !.nbCurrentSoft = Cardinality(I),
                    !.maxsat_formula.problemType =
                       IF unweighted THEN _UNWEIGHTED_ ELSE _WEIGHTED_],
                 \A i \in I : f.soft[i].assumption_var # lit_Undef),
           f.maxWeight # 0)

\* Encoder::encodePB / encodeCardinality: the constraint
\* sum coeffs[i]*lits[i] <= rhs becomes part of the oracle, together with
\* an auxiliary variable of the encoding, a new variable of the oracle that
\* the encoding fixes
encodePB(s, lits, co, rhs) ==
  [s EXCEPT !.enc = "PB",
            !.solver.nVars = @ + 1,
            !.solver.pbs = Append(@, [lits |-> lits, coeffs |-> co,
                                      rhs |-> rhs,
                                      aux |-> s.solver.nVars + 1])]
encodeCardinality(s, lits, rhs) ==
  [s EXCEPT !.enc = "CARD",
            !.solver.nVars = @ + 1,
            !.solver.pbs = Append(@, [lits |-> lits,
                                      coeffs |-> [i \in 1..Len(lits) |-> 1],
                                      rhs |-> rhs,
                                      aux |-> s.solver.nVars + 1])]

\* Encoder::updatePB / updateCardinality: the right-hand side is lowered;
\* clauses once given to the oracle stay
updatePB(s, rhs) ==
  IF Len(s.solver.pbs) = 0 THEN s
  ELSE [s EXCEPT !.solver.pbs[Len(s.solver.pbs)].rhs = Min(@, rhs)]

\* setCardVars(bound): an oracle call under the best model's values of the
\* variables below bound
setCardVars(s, bound) ==
  LET s0 == assert(s, bound <= s.bestModel.size)
      cardAssumps == [lits |-> ModelLits(s.bestModel,
                                         Min(bound, s.bestModel.size)),
                      bound |-> -1]
  IN {[checkModel(assert([s0 EXCEPT !.solver = Answered(@, o)],
                         o.res = "l_True"))
         EXCEPT !.assumptions = NoAssumptions]
      : o \in searchSATSolver(s0.solver, cardAssumps, FALSE)}

\* a bound update that also counts the excluded cost into the lower bound
updateBoundLinSearchRaisesLb(s, newBound) ==
  [s EXCEPT !.lbCost = Wrap(@ + 1)]

initializePBConstraint(s, rhs) ==
  LET s1 == initRelaxation(s)
      boundOnVars == s1.solver.nVars
      s2 == IF s1.maxsat_formula.problemType = _WEIGHTED_
              THEN encodePB(s1, s1.objFunction, s1.coeffs, rhs)
              ELSE encodeCardinality(s1, s1.objFunction, rhs)
  IN setCardVars(s2, boundOnVars)

updateBoundLinSearch(s, newBound) ==
  LET weighted == s.maxsat_formula.problemType = _WEIGHTED_
      s0 == assert(s, s.enc = (IF weighted THEN "PB" ELSE "CARD"))
  IN IF ~s.cfg.incrementalVarres THEN updatePB(s0, newBound)
     ELSE [assert(s0, weighted)
             EXCEPT !.assumptions = [lits |-> <<>>, bound |-> newBound]]

\* linearSearch up to its call of setPBencodings
linearSearch(s) ==
  LET s1 == assert([s EXCEPT !.inLinSearch = TRUE,
                             !.assumptions = NoAssumptions],
                   s.bestModel.size > 0)
      s2 == IF s.cfg.delete_before_lin THEN resetSolver(s1) ELSE s1
  IN {Out(initializeDivisionFactor(s2, s.cfg.varyingres),
          "setPBencodings", "NONE")}

\* setPBencodings: one call; the call from within itself is the next one
setPBencodings(s) ==
  UNION {IF r.cost = 0 /\ r.s.maxsat_formula.maxWeight > 1
           THEN {Out(updateDivisionFactorLinear(r.s), "setPBencodings", "NONE")}
           ELSE {Out(x, "linearLoop", "NONE")
                   : x \in initializePBConstraint(r.s, r.cost)}
         : r \in computeCostReducedWeights(s, TRUE)}

\* the rebuild of the linear loop for the next resolution
Rebuild(s) ==
  Out(updateDivisionFactorLinear(
        IF ~s.cfg.incrementalVarres THEN resetSolver(s) ELSE s),
      "setPBencodings", "NONE")

\* one round of the while loop of linearSearch
linearLoop(s) ==
  LET s1 == IF ~s.cfg.incrementalVarres
              THEN [s EXCEPT !.assumptions = NoAssumptions] ELSE s
  IN UNION
     {LET s2 == [s1 EXCEPT !.solver = Answered(@, o)] IN
      IF o.res = "l_True" THEN
        {LET s3 == checkModel(r.s) IN
         IF boundsMeet(s3) THEN Out(s3, "done", "OPTIMUM")
         ELSE IF r.cost > 0
           THEN Out(updateBoundLinSearch(s3, r.cost - 1), "linearLoop", "NONE")
         ELSE IF s3.maxsat_formula.maxWeight = 1
           THEN Out(s3, "done", "OPTIMUM")
         ELSE Rebuild(s3)
         : r \in computeCostReducedWeights(
                   [s2 EXCEPT !.nbSatisfiable = Sat1(@)], FALSE)}
      ELSE IF s2.maxsat_formula.maxWeight = 1
        THEN {Out(s2, "done", "OPTIMUM")}
        ELSE {Rebuild(s2)}
      : o \in searchSATSolver(s1.solver, s1.assumptions, FALSE)}

-----------------------------------------------------------------------------
(* Inputs: the options and the formula *)

\* the options; those the chosen strategy never reads are left off
Configs ==
  {c \in [lins : {0, 1, 2},
          weightStrategy : {_WEIGHT_NORMAL_, _WEIGHT_DIVERSIFY_},
          varyingresCG : BOOLEAN,
          varyingres : BOOLEAN,
          varresFactor : {2},
          timeLimitCores : BOOLEAN,
          relaxBeforeStrat : BOOLEAN,
          incrementalVarres : BOOLEAN,
          delete_before_lin : BOOLEAN] :
     /\ c.lins # 1 => ~c.timeLimitCores /\ ~c.relaxBeforeStrat
     /\ c.lins = 0 => ~c.incrementalVarres}

Lits == {l \in (-NOrigVars)..NOrigVars : l # 0}

\* hard clauses of the enumerated inputs: units and binary clauses
HardClauses ==
  {<<l>> : l \in Lits}
  \cup {<<p[1], p[2]>> : p \in {q \in Lits \X Lits : var(q[2]) > var(q[1])}}

RECURSIVE SeqsUpTo(_, _)
\* the sequences over S of length at most n
SeqsUpTo(S, n) ==
  IF n = 0 THEN {<<>>}
  ELSE LET shorter == SeqsUpTo(S, n - 1)
       IN shorter \cup {Append(q, x) : q \in shorter, x \in S}

\* a formula as the parser leaves it
Formula(nv, hard, soft) ==
  LET W == {soft[i].weight : i \in 1..Len(soft)} \cup {1}
      maxW == CHOOSE w \in W : \A v \in W : v <= w
  IN [nVars |-> nv, hard |-> hard, soft |-> soft,
      maxWeight |-> maxW,
      problemType |-> IF maxW = 1 THEN _UNWEIGHTED_ ELSE _WEIGHTED_,
      sumWeights |-> SumSeq([i \in 1..Len(soft) |-> soft[i].weight])]

\* the enumerated family: every formula within the bounds
Family ==
  {Formula(NOrigVars, h, sf) :
     h \in SeqsUpTo(HardClauses, MaxHard),
     sf \in SeqsUpTo({Soft(w, <<l>>, lit_Undef) : w \in 1..MaxW, l \in Lits},
                     MaxSoft)}

\* formulas beyond the family, over the one variable x:
\* hard clauses that are unsatisfiable, under no, one and two soft clauses
UnsatHard ==
  {Formula(1, <<<<1>>, <<-1>>>>, sf) :
     sf \in {<<>>, <<Soft(1, <<1>>, lit_Undef)>>,
             <<Soft(2, <<1>>, lit_Undef), Soft(1, <<-1>>, lit_Undef)>>}}
\* (~x, 2) (~x, 2) (x, 3): the optimum 3 leaves a soft clause whose weight
\* is the gap
HardenTie ==
  Formula(1, <<>>, <<Soft(2, <<-1>>, lit_Undef), Soft(2, <<-1>>, lit_Undef),
                     Soft(3, <<1>>, lit_Undef)>>)
\* (x, 7) (x, 3) (~x, 4) (~x, 4): the optimum 8 costs more than the other
\* assignment once the weights are divided by 4
CoarseFirst ==
  Formula(1, <<>>, <<Soft(7, <<1>>, lit_Undef), Soft(3, <<1>>, lit_Undef),
                     Soft(4, <<-1>>, lit_Undef), Soft(4, <<-1>>, lit_Undef)>>)

\* x is hard; (~x, 3) (~x, 6): a core of one soft clause takes away the only
\* soft clause of the working weight 3
UnitCore ==
  Formula(1, <<<<1>>>>, <<Soft(3, <<-1>>, lit_Undef), Soft(6, <<-1>>, lit_Undef)>>)

\* the options that switch every variation off, for the strategy lins
Plain(lins) ==
  [lins |-> lins, weightStrategy |-> _WEIGHT_NORMAL_, varyingresCG |-> FALSE,
   varyingres |-> FALSE, varresFactor |-> 2, timeLimitCores |-> FALSE,
   relaxBeforeStrat |-> FALSE, incrementalVarres |-> FALSE,
   delete_before_lin |-> FALSE]

\* the runs: every formula of the family and every unsatisfiable one under
\* every choice of options; HardenTie and UnitCore under the core-guided
\* strategies;
\* CoarseFirst under the linear search with varying resolution, rebuilt or
\* incremental
Runs ==
  (Configs \X (Family \cup UnsatHard))
  \cup ({Plain(0), Plain(1)} \X {HardenTie, UnitCore})
  \cup ({[Plain(2) EXCEPT !.varyingres = TRUE, !.incrementalVarres = i] :
           i \in BOOLEAN} \X {CoarseFirst})

-----------------------------------------------------------------------------
(* The state machine *)

\* the solver object after its construction for the options c and the
\* formula f
Constructed(c, f) ==
  [cfg |-> c, costComputingFormula |-> f, maxsat_formula |-> f,
   coreMapping |-> <<>>, solver |-> newSATSolver, enc |-> "NULL",
   assumptions |-> NoAssumptions, objFunction |-> <<>>, coeffs |-> <<>>,
   lbCost |-> 0, ubCost |-> UINT64_MAX, known_gap |-> UINT64_MAX,
   bestModel |-> EmptyModel, model |-> EmptyModel,
   nbSatisfiable |-> 0, nbCores |-> 0, nbCurrentSoft |-> 0,
   num_hardened |-> 0, maxw_nothardened |-> 0,
   vars_added |-> 0, clauses_added |-> 0, softs_added |-> 0,
   inLinSearch |-> FALSE, us |-> "NONE", hardened_weight |-> 0,
   af |-> FALSE, crash |-> FALSE, diverge |-> FALSE, ub |-> FALSE,
   stale |-> {}]

\* the variables hold the solver object s
Holds(s) ==
  /\ cfg = s.cfg
  /\ costComputingFormula = s.costComputingFormula
  /\ maxsat_formula = s.maxsat_formula
  /\ coreMapping = s.coreMapping
  /\ solver = s.solver
  /\ enc = s.enc
  /\ assumptions = s.assumptions
  /\ objFunction = s.objFunction
  /\ coeffs = s.coeffs
  /\ lbCost = s.lbCost
  /\ ubCost = s.ubCost
  /\ known_gap = s.known_gap
  /\ bestModel = s.bestModel
  /\ model = s.model
  /\ nbSatisfiable = s.nbSatisfiable
  /\ nbCores = s.nbCores
  /\ nbCurrentSoft = s.nbCurrentSoft
  /\ num_hardened = s.num_hardened
  /\ maxw_nothardened = s.maxw_nothardened
  /\ vars_added = s.vars_added
  /\ clauses_added = s.clauses_added
  /\ softs_added = s.softs_added
  /\ inLinSearch = s.inLinSearch
  /\ us = s.us
  /\ hardened_weight = s.hardened_weight

Init ==
  /\ \E r \in Runs : Holds(Constructed(r[1], r[2]))
  /\ pc = "search"
  /\ status = "NONE"
  /\ release_build = FALSE

\* the state of the solver object, as the operations take it
Cur ==
  [cfg |-> cfg, costComputingFormula |-> costComputingFormula,
   maxsat_formula |-> maxsat_formula, coreMapping |-> coreMapping,
   solver |-> solver, enc |-> enc, assumptions |-> assumptions,
   objFunction |-> objFunction, coeffs |-> coeffs,
   lbCost |-> lbCost, ubCost |-> ubCost, known_gap |-> known_gap,
   bestModel |-> bestModel, model |-> model,
   nbSatisfiable |-> nbSatisfiable, nbCores |-> nbCores,
   nbCurrentSoft |-> nbCurrentSoft, num_hardened |-> num_hardened,
   maxw_nothardened |-> maxw_nothardened,
   vars_added |-> vars_added, clauses_added |-> clauses_added,
   softs_added |-> softs_added, inLinSearch |-> inLinSearch, us |-> us,
   hardened_weight |-> hardened_weight,
   af |-> FALSE, crash |-> FALSE, diverge |-> FALSE, ub |-> FALSE,
   stale |-> {}]

\* search() goes on from the outcome o
Become(o) ==
  /\ cfg' = o.s.cfg
  /\ costComputingFormula' = o.s.costComputingFormula
  /\ maxsat_formula' = o.s.maxsat_formula
  /\ coreMapping' = o.s.coreMapping
  /\ solver' = o.s.solver
  /\ enc' = o.s.enc
  /\ assumptions' = o.s.assumptions
  /\ objFunction' = o.s.objFunction
  /\ coeffs' = o.s.coeffs
  /\ lbCost' = o.s.lbCost
  /\ ubCost' = o.s.ubCost
  /\ known_gap' = o.s.known_gap
  /\ bestModel' = o.s.bestModel
  /\ model' = o.s.model
  /\ nbSatisfiable' = o.s.nbSatisfiable
  /\ nbCores' = o.s.nbCores
  /\ nbCurrentSoft' = o.s.nbCurrentSoft
  /\ num_hardened' = o.s.num_hardened
  /\ maxw_nothardened' = o.s.maxw_nothardened
  /\ vars_added' = o.s.vars_added
  /\ clauses_added' = o.s.clauses_added
  /\ softs_added' = o.s.softs_added
  /\ inLinSearch' = o.s.inLinSearch
  /\ us' = o.s.us
  /\ hardened_weight' = o.s.hardened_weight
  /\ release_build' = (release_build \/ o.s.af)
  /\ pc' = IF o.s.diverge THEN "hang" ELSE o.pc
  /\ status' = IF o.s.diverge THEN "NONE" ELSE o.status

\* the process ends at a failed assert (a build with asserts) or at a crash
Abort ==
  /\ pc' = "abort"
  /\ status' = "ABORT"
  /\ UNCHANGED <<cfg, costComputingFormula, maxsat_formula, coreMapping,
                 solver, enc, assumptions, objFunction, coeffs, lbCost,
                 ubCost, known_gap, bestModel, model, nbSatisfiable, nbCores,
                 nbCurrentSoft, num_hardened, maxw_nothardened, vars_added,
                 clauses_added, softs_added, inLinSearch, us, release_build,
                 hardened_weight>>

\* what the build makes of the outcome o: a crash ends the process in every
\* build; a failed assert ends it unless the build is a release build, which
\* it is known to be once the run has passed a failed assert
Builds(o) ==
  IF o.s.crash THEN {"abort"}
  ELSE IF o.s.ub \/ (o.s.af /\ ~release_build) THEN {"abort", "go"}
  ELSE {"go"}

\* the current state, with g for the variables that a read beyond a cleared
\* model finds l_True
Stale(g) == [Cur EXCEPT !.stale = g]
StaleValues == SUBSET (1..costComputingFormula.nVars)

\* the outcomes of a method from the current state: base, those of a run that
\* finds nothing l_True beyond a cleared model and, when the method does read
\* there, all, those of every value the read may find
Outcomes(base, all) ==
  IF \E o \in base : o.s.ub THEN all ELSE base

Step(base, all) ==
  \E o \in Outcomes(base, all) : \E b \in Builds(o) :
    IF b = "abort" THEN Abort ELSE Become(o)

RunSetup == pc = "search" /\ Step(setup(Cur),
          UNION {setup(Stale(g)) : g \in StaleValues})
RunWeightDisjointCores ==
  pc = "weightDisjointCores" /\ Step(weightDisjointCores(Cur),
          UNION {weightDisjointCores(Stale(g)) : g \in StaleValues})
RunWeightSearch == pc = "return" /\ cfg.lins = 0 /\ Step(weightSearch(Cur),
          UNION {weightSearch(Stale(g)) : g \in StaleValues})
RunCoreGuidedLinearSearch ==
  pc = "return" /\ cfg.lins = 1 /\ Step(coreGuidedLinearSearch(Cur),
          UNION {coreGuidedLinearSearch(Stale(g)) : g \in StaleValues})
RunLinearSearch == pc = "linearSearch" /\ Step(linearSearch(Cur),
          UNION {linearSearch(Stale(g)) : g \in StaleValues})
RunSetPBencodings == pc = "setPBencodings" /\ Step(setPBencodings(Cur),
          UNION {setPBencodings(Stale(g)) : g \in StaleValues})
RunLinearLoop == pc = "linearLoop" /\ Step(linearLoop(Cur),
          UNION {linearLoop(Stale(g)) : g \in StaleValues})

Next ==
  \/ RunSetup
  \/ RunWeightDisjointCores
  \/ RunWeightSearch
  \/ RunCoreGuidedLinearSearch
  \/ RunLinearSearch
  \/ RunSetPBencodings
  \/ RunLinearLoop

Spec == Init /\ [][Next]_vars

-----------------------------------------------------------------------------
(* The relaxation of a core on its own: the formula has MaxCore or fewer   *)
(* unit soft clauses over variables of their own, search() has             *)
(* standardised it and called initAssumptions, and the oracle's conflict   *)
(* is any non-empty set of the assumption literals, in any order.          *)

\* greatest number of soft clauses of a formula of CoreInputs
MaxCore == 4

CoreInputs ==
  {Formula(Len(w), <<>>, [i \in 1..Len(w) |-> Soft(w[i], <<i>>, lit_Undef)]) :
     w \in SeqsUpTo(1..MaxW, MaxCore) \ {<<>>}}

\* search() up to the call of the oracle in unsatSearch
Prepared(c, f) ==
  updateSolver(initAssumptions(
    [Constructed(c, f) EXCEPT !.maxsat_formula = standardizeMaxSATFormula(f),
                              !.maxw_nothardened = f.sumWeights]))

InitMaxRes ==
  /\ \E l \in {0, 1, 2} : \E f \in CoreInputs : Holds(Prepared(Plain(l), f))
  /\ pc = "relaxCore"
  /\ status = "NONE"
  /\ release_build = FALSE

\* the conflicts over the assumption literals of s
Cores(s) ==
  UNION {Perms(S) :
           S \in SUBSET {s.maxsat_formula.soft[i].assumption_var :
                           i \in 1..nSoft(s.maxsat_formula)} \ {{}}}

RunCoreFound ==
  /\ pc = "relaxCore"
  /\ \E c \in Cores(Cur) :
       Become(Out(coreFound([Cur EXCEPT !.solver.conflict = c]),
                  "relaxed", "NONE"))

NextMaxRes == RunCoreFound

SpecMaxRes == InitMaxRes /\ [][NextMaxRes]_vars

-----------------------------------------------------------------------------
(* Stratification: the core-guided search on three unit soft clauses over   *)
(* one variable, two against one, of every weight up to MaxStrataW, under   *)
(* the normal, the diversify and the varying-resolution strategy.           *)

\* greatest weight of a soft clause of StrataInputs
MaxStrataW == 4

StrataInputs ==
  {Formula(1, <<>>, <<Soft(w[1], <<-1>>, lit_Undef),
                      Soft(w[2], <<-1>>, lit_Undef),
                      Soft(w[3], <<1>>, lit_Undef)>>) :
     w \in [1..3 -> 1..MaxStrataW]}

StrataConfigs ==
  {[Plain(0) EXCEPT !.weightStrategy = st, !.varyingresCG = v] :
     st \in {_WEIGHT_NORMAL_, _WEIGHT_DIVERSIFY_}, v \in BOOLEAN}

InitStrata ==
  /\ \E c \in StrataConfigs : \E f \in StrataInputs :
       Holds(Constructed(c, f))
  /\ pc = "search"
  /\ status = "NONE"
  /\ release_build = FALSE

NextStrata ==
  \/ RunSetup
  \/ RunWeightDisjointCores
  \/ RunWeightSearch

SpecStrata == InitStrata /\ [][NextStrata]_vars

-----------------------------------------------------------------------------
(* The hybrid search: core-guided, then linear, on the soft clauses of       *)
(* HardenTie, which the core-guided phase hardens, with the oracle deleted   *)
(* before the linear phase or kept, and varying resolution in the linear     *)
(* phase on or off.                                                          *)

HybridInputs == {HardenTie}

HybridConfigs ==
  {[Plain(1) EXCEPT !.delete_before_lin = d, !.varyingres = v] :
     d \in BOOLEAN, v \in BOOLEAN}

InitHybrid ==
  /\ \E c \in HybridConfigs : \E f \in HybridInputs :
       Holds(Constructed(c, f))
  /\ pc = "search"
  /\ status = "NONE"
  /\ release_build = FALSE

NextHybrid ==
  \/ RunSetup
  \/ RunWeightDisjointCores
  \/ RunCoreGuidedLinearSearch
  \/ RunLinearSearch
  \/ RunSetPBencodings
  \/ RunLinearLoop

SpecHybrid == InitHybrid /\ [][NextHybrid]_vars

-----------------------------------------------------------------------------
(* The claims *)

\* the assignments to the variables of the formula f that satisfy its hard
\* clauses, the cost of one of them, and the least cost
HardModels(f) ==
  {tv \in SUBSET (1..f.nVars) :
     \A i \in 1..nHard(f) : ClauseSat(f.hard[i], tv)}
CostOf(f, tv) ==
  SumSeq([i \in 1..nSoft(f) |->
            IF ClauseSat(f.soft[i].clause, tv) THEN 0 ELSE f.soft[i].weight])
Optimum(f) ==
  LET C == {CostOf(f, tv) : tv \in HardModels(f)}
  IN CHOOSE c \in C : \A d \in C : c <= d

\* search() has returned OPTIMUM
Optimal == pc = "done" /\ status = "OPTIMUM"
\* search() is past setup() and the process has not ended at an assert
Running == pc \notin {"search", "abort"}
\* sum of the current weights of the soft clauses
SumWeights == SumSeq([i \in 1..nSoft(maxsat_formula) |->
                        maxsat_formula.soft[i].weight])

\* C1: when search() returns OPTIMUM for a formula whose hard clauses are
\* satisfiable, ubCost is the least cost of an assignment that satisfies the
\* hard clauses, for lins 0, 1 and 2.
C1_OptimumCost ==
  Optimal /\ HardModels(costComputingFormula) # {}
    => ubCost = Optimum(costComputingFormula)

\* C2: once unsatSearch has found the hard clauses satisfiable,
\* lbCost <= optimum <= ubCost in every state.
C2_Bounds ==
  nbSatisfiable > 0 /\ HardModels(costComputingFormula) # {}
    => /\ lbCost <= Optimum(costComputingFormula)
       /\ Optimum(costComputingFormula) <= ubCost

\* C3: in every step of a run lbCost does not decrease, ubCost does not
\* increase and known_gap does not increase.
C3_Monotone ==
  [][/\ lbCost' >= lbCost
     /\ ubCost' <= ubCost
     /\ known_gap' <= known_gap]_vars
\* a run that has raised lbCost and lowered ubCost and known_gap has ended
C3_Moved ==
  /\ pc = "done"
  /\ lbCost > 0
  /\ ubCost < UINT64_MAX
  /\ known_gap < UINT64_MAX

\* C4, as the specification has it: whenever search() returns OPTIMUM, from
\* the core-guided drivers or from the linear search, lbCost = ubCost.
C4_BoundsMeet == Optimal => lbCost = ubCost
\* C4, as the code has it: when search() returns OPTIMUM before the linear
\* search has begun, ubCost <= lbCost, and they differ only in a run that
\* went on after weightDisjointCores returned ERROR (a build without
\* asserts); the exits of the linear search leave lbCost where the
\* core-guided phase left it.
C4_CoreGuidedExit ==
  Optimal /\ ~inLinSearch
    => lbCost = ubCost \/ (lbCost > ubCost /\ release_build)
\* a core-guided run with a core has ended with OPTIMUM and equal bounds
C4_CoreGuidedMet ==
  Optimal /\ ~inLinSearch /\ lbCost = ubCost /\ lbCost > 0

\* what the model m makes of the clause c: true when one of its literals is
\* true in m, a variable beyond m being neither true nor false
SatisfiedIn(c, m) == \E j \in 1..Len(c) : literalTrueInModel(c[j], m)

\* C5, as the specification has it: when search() returns OPTIMUM the saved
\* model satisfies every hard clause of the formula, those the relaxation
\* and the hardening have added too, and the input's soft clauses it
\* falsifies weigh ubCost.
C5_ModelOfAll ==
  Optimal
    => /\ \A i \in 1..nHard(maxsat_formula) :
            SatisfiedIn(maxsat_formula.hard[i], model)
       /\ \A i \in 1..Len(solver.clauses) : SatisfiedIn(solver.clauses[i], model)
       /\ computeCostModelPMRES(costComputingFormula, model) = ubCost
\* C5, as the code has it: when search() returns OPTIMUM the saved model
\* satisfies every hard clause of the input formula and the input's soft
\* clauses it falsifies weigh ubCost; the clauses added after the model was
\* saved it need not satisfy.
C5_ModelOfInput ==
  Optimal
    => /\ \A i \in 1..nHard(costComputingFormula) :
            SatisfiedIn(costComputingFormula.hard[i], model)
       /\ computeCostModelPMRES(costComputingFormula, model) = ubCost
\* OPTIMUM at a cost above 0 for an input with a hard clause, after a core
\* has been relaxed
C5_Saved ==
  Optimal /\ nHard(costComputingFormula) > 0 /\ ubCost > 0 /\ nbCores > 0

\* C6: when the first call of the oracle answers l_False, search() ends
\* with UNSATISFIABLE, whatever the options.
C6_Unsatisfiable ==
  HardModels(costComputingFormula) = {} /\ pc # "search"
    => pc = "done" /\ status = "UNSATISFIABLE"

\* C7: after standardisation the current weights of the soft clauses, lbCost
\* and the weight the hardening has set to 0 add up to the sum of the
\* input's weights, and a step that relaxes a core of cost w lowers the sum
\* of the current weights by w.
C7_SumInvariant ==
  [][/\ Running'
         => SumWeights' + lbCost' + hardened_weight'
              = costComputingFormula'.sumWeights
     /\ Running /\ Running' /\ hardened_weight' = hardened_weight
         => SumWeights' = SumWeights - (lbCost' - lbCost)]_vars
\* a run has relaxed a core, and has hardened a soft clause
C7_Relaxed ==
  Running /\ lbCost > 0 /\ hardened_weight > 0 /\ SumWeights > 0

\* C8: after initAssumptions every soft clause is a unit clause, its weight
\* is above 0 exactly when its assumption literal is defined, and
\* coreMapping takes a defined assumption literal to the clause's index.
C8_SoftClauses ==
  Running
    => \A i \in 1..nSoft(maxsat_formula) :
         LET c == maxsat_formula.soft[i] IN
         /\ Len(c.clause) = 1
         /\ c.weight > 0 <=> c.assumption_var # lit_Undef
         /\ c.assumption_var # lit_Undef
              => /\ c.assumption_var \in DOMAIN coreMapping
                 /\ coreMapping[c.assumption_var] = i
\* soft clauses of each kind are there: one relaxed to weight 0, one
\* hardened, one added by a relaxation
C8_AllKinds ==
  /\ Running
  /\ hardened_weight > 0
  /\ nSoft(maxsat_formula) > nSoft(costComputingFormula)
  /\ \E i \in 1..nSoft(maxsat_formula) : maxsat_formula.soft[i].weight > 0

\* the relaxation of the core solver.conflict is done: the variables, hard
\* clauses and soft clauses it has added to the standardised formula
Relaxed == pc = "relaxed"
OldVars == costComputingFormula.nVars + nSoft(costComputingFormula)
OldHard == nHard(costComputingFormula) + nSoft(costComputingFormula)
OldSoft == nSoft(costComputingFormula)
FreshVars == (OldVars + 1)..maxsat_formula.nVars
NewHard == {maxsat_formula.hard[i] : i \in (OldHard + 1)..nHard(maxsat_formula)}
NewSoft == (OldSoft + 1)..nSoft(maxsat_formula)
\* the assignments T \cup X, X over the fresh variables, that satisfy the
\* new hard clauses when exactly the core literals of T are true
Extensions(T) ==
  {T \cup X : X \in {Y \in SUBSET FreshVars :
                       \A c \in NewHard : ClauseSat(c, T \cup Y)}}
\* total weight of the new soft clauses that tv falsifies
NewCost(tv) ==
  SumSeq([k \in 1..Cardinality(NewSoft) |->
            LET c == maxsat_formula.soft[OldSoft + k] IN
            IF ClauseSat(c.clause, tv) THEN 0 ELSE c.weight])

\* C9: after the relaxation of a core of weight w, for every assignment to
\* the core literals that makes k >= 1 of them true, the least weight of
\* new soft clauses falsified by an assignment to the fresh variables that
\* satisfies the new hard clauses is w * (k - 1), for lins 0, 1 and 2.
C9_CostPreserved ==
  Relaxed
    => \A T \in SUBSET Range(solver.conflict) \ {{}} :
         /\ Extensions(T) # {}
         /\ \A tv \in Extensions(T) : NewCost(tv) >= lbCost * (Cardinality(T) - 1)
         /\ \E tv \in Extensions(T) : NewCost(tv) = lbCost * (Cardinality(T) - 1)
\* a core of the greatest size and a weight above 1 has been relaxed, under
\* the one-directional encoding
C9_LongCore ==
  Relaxed /\ Len(solver.conflict) = MaxCore /\ lbCost > 1 /\ cfg.lins # 0

\* C10: the relaxation of a core of size n and weight w appends n - 1 soft
\* clauses, each a unit clause of weight w whose assumption literal is fresh
\* and is mapped by coreMapping to the clause's index, and adds 2(n - 1)
\* variables; the soft clauses that were there keep index and body.
C10_Appended ==
  Relaxed
    => LET n == Len(solver.conflict)
           f == maxsat_formula
       IN /\ nSoft(f) = OldSoft + (n - 1)
          /\ f.nVars = OldVars + 2 * (n - 1)
          /\ \A i \in NewSoft :
               /\ Len(f.soft[i].clause) = 1
               /\ f.soft[i].weight = lbCost
               /\ f.soft[i].assumption_var \in FreshVars
               /\ f.soft[i].clause = <<-f.soft[i].assumption_var>>
               /\ coreMapping[f.soft[i].assumption_var] = i
               /\ \A j \in NewSoft :
                    j # i => f.soft[j].assumption_var # f.soft[i].assumption_var
          /\ \A i \in 1..OldSoft :
               f.soft[i].clause = <<-(costComputingFormula.nVars + i)>>
\* a core of three soft clauses, part of the formula's four, has been relaxed
C10_PartCore ==
  Relaxed /\ Len(solver.conflict) = 3 /\ OldSoft = 4 /\ nSoft(maxsat_formula) = 6

\* C11: search() never returns ERROR: the branch "should not get here" of
\* coreGuidedLinearSearch and the ends of the loops of coreGuidedLinearSearch
\* and linearSearch are not reached.
C11_NeverError == status # "ERROR"
\* a hybrid run with relaxBeforeStrat has returned with the working weight
\* at 1, after a core and after the linear search
C11_RelaxFirstDone ==
  /\ pc = "done"
  /\ cfg.lins = 1 /\ cfg.relaxBeforeStrat
  /\ maxsat_formula.maxWeight = 1
  /\ nbCores > 0
  /\ inLinSearch

\* C12, as the specification has it: in the hybrid search every return of
\* weightDisjointCores with SATISFIABLE that does not end the search and
\* leaves the working weight at 1 goes on to the linear search, with
\* relaxBeforeStrat or without.
C12_SwitchAtOne ==
  [][(/\ pc = "return" /\ cfg.lins = 1 /\ us = "SATISFIABLE"
      /\ pc' \notin {"done", "abort", "hang"}
      /\ maxsat_formula'.maxWeight = 1)
       => pc' = "linearSearch"]_vars
\* C12, as the code has it: it goes on to the linear search unless
\* relaxBeforeStrat is set, the working weight was 1 already and hard
\* clauses waited for the oracle, which updateSolver then delivers before
\* the next core-guided call.
C12_SwitchUnlessPending ==
  [][(/\ pc = "return" /\ cfg.lins = 1 /\ us = "SATISFIABLE"
      /\ pc' \notin {"done", "abort", "hang"}
      /\ maxsat_formula'.maxWeight = 1)
       => \/ pc' = "linearSearch"
          \/ /\ cfg.relaxBeforeStrat
             /\ maxsat_formula.maxWeight = 1
             /\ clauses_added' > clauses_added
             /\ clauses_added' = nHard(maxsat_formula')]_vars
\* the hybrid search has left the core-guided phase for the linear search
\* after a SATISFIABLE return at the working weight 1, cores having been
\* relaxed
C12_Switched ==
  /\ pc = "linearSearch" /\ cfg.lins = 1 /\ us = "SATISFIABLE"
  /\ maxsat_formula.maxWeight = 1
  /\ nbCores > 0

\* C13: in the hybrid search, when weightDisjointCores returns UNKNOWN (the
\* time for cores is over or the oracle gave up), search() does not return
\* but begins the linear search, with lbCost, ubCost and the best model as
\* they were.
C13_InterruptedGoesLinear ==
  [][(pc = "return" /\ cfg.lins = 1 /\ us = "UNKNOWN")
       => /\ pc' = "linearSearch"
          /\ status' = "NONE"
          /\ lbCost' = lbCost
          /\ ubCost' = ubCost
          /\ bestModel' = bestModel
          /\ model' = model]_vars
\* the linear search is about to begin after an interruption that followed
\* a core, with clauses of the relaxation delivered on the way
C13_Interrupted ==
  /\ pc = "linearSearch" /\ cfg.lins = 1 /\ us = "UNKNOWN"
  /\ nbCores > 0 /\ lbCost > 0
  /\ clauses_added = nHard(maxsat_formula)

\* C14: once weightDisjointCores has returned because lbCost > ubCost, the
\* run is over: the next step ends the process, and nothing of the bounds,
\* the saved models, the formula store or the oracle changes any more, under
\* weightSearch and under coreGuidedLinearSearch.
C14_Fatal ==
  [][(pc = "return" /\ us = "ERROR")
       => /\ pc' = "abort"
          /\ UNCHANGED <<lbCost, ubCost, known_gap, model, bestModel,
                         maxsat_formula, solver, nbSatisfiable>>]_vars

\* the current weights of the soft clauses, and the powers of varresFactor
CurrentWeights ==
  {maxsat_formula.soft[i].weight : i \in 1..nSoft(maxsat_formula)}
Powers == {cfg.varresFactor ^ k : k \in 0..WordBits}
\* search() is past setup() and goes on or has returned
Alive == pc \notin {"search", "abort", "hang"}

\* C15, as the specification has it: in every state after setup the working
\* weight is the current weight of a soft clause, or 1, or a power of
\* varresFactor, core relaxations and hardening notwithstanding.
C15_WeightPresent ==
  Alive => maxsat_formula.maxWeight \in CurrentWeights \cup {1} \cup Powers
\* C15, as the code has it: every step that sets the working weight sets it
\* to the weight a soft clause has at the end of the step, or to 1, or to a
\* power of varresFactor; a relaxation or a hardening may then take that
\* weight from every soft clause while the working weight stays.
C15_WeightWhenSet ==
  [][(Alive' /\ (pc = "search"
                  \/ maxsat_formula'.maxWeight # maxsat_formula.maxWeight))
       => maxsat_formula'.maxWeight
            \in CurrentWeights' \cup {1} \cup Powers']_vars
\* after a core, the working weight is one that was set to the weight of a
\* soft clause, neither 1 nor a power of varresFactor
C15_OddWeight ==
  /\ Alive /\ nbCores > 0
  /\ maxsat_formula.maxWeight \notin {1} \cup Powers

\* a step of weightDisjointCores that has called the oracle
CoreGuidedCall ==
  /\ pc = "weightDisjointCores"
  /\ pc' \in {"weightDisjointCores", "return"}
  /\ ~(cfg.timeLimitCores /\ us' = "UNKNOWN" /\ solver' = solver)
\* the soft clauses among the first n that the working weight selects
Selected(n) ==
  {i \in 1..n :
     LET w == maxsat_formula.soft[i].weight
         m == maxsat_formula.maxWeight
     IN IF cfg.varyingresCG THEN m # 0 /\ w \div m > 0 ELSE w >= m}
\* the assumption vector of the call is made of the soft clauses in I
AssumedExactly(I) ==
  /\ Range(assumptions'.lits)
       = {-maxsat_formula.soft[i].assumption_var : i \in I}
  /\ Len(assumptions'.lits) = Cardinality(I)
  /\ nbCurrentSoft' = Len(assumptions'.lits)

\* C16, as the specification has it: at every oracle call of the core-guided
\* phase the assumptions are the negated assumption literals of all the soft
\* clauses of the formula store that the working weight selects, those of
\* earlier relaxations too, and nbCurrentSoft is their number.
C16_AllSelected ==
  [][CoreGuidedCall => AssumedExactly(Selected(nSoft(maxsat_formula)))]_vars
\* C16, as the code has it: the assumptions are those of the selected soft
\* clauses among the first softs_added, the ones the last updateSolver has
\* seen; a soft clause of a relaxation is assumed only after the next
\* updateSolver.
C16_SelectedOfAdded ==
  [][CoreGuidedCall => AssumedExactly(Selected(softs_added))]_vars
\* an oracle call has answered l_True under assumptions while a soft clause
\* of a relaxation, selected by the working weight, was not yet among the
\* first softs_added
C16_Pending ==
  /\ pc = "return" /\ us = "SATISFIABLE"
  /\ Len(assumptions.lits) > 0
  /\ \E i \in (softs_added + 1)..nSoft(maxsat_formula) :
       maxsat_formula.soft[i].weight >= maxsat_formula.maxWeight
  /\ ~cfg.varyingresCG

\* the elements of a from the i-th on occur in b from the j-th on, in order
RECURSIVE Embeds(_, _, _, _)
Embeds(a, i, b, j) ==
  IF i > Len(a) THEN TRUE
  ELSE IF j > Len(b) THEN FALSE
  ELSE IF a[i] = b[j] THEN Embeds(a, i + 1, b, j + 1)
  ELSE Embeds(a, i, b, j + 1)

\* C17: updateSolver hands the oracle the hard clauses of the store from
\* index clauses_added on, in store order, and sets the three counters to
\* the sizes of the store; no step of a run lowers a counter (resetSolver
\* zeroes them and updateSolver sets them again at once); and the hard
\* clauses of the store below clauses_added, all of them after an
\* updateSolver or a resetSolver, occur in the oracle in store order.
C17_Delivered ==
  [][/\ clauses_added' >= clauses_added
     /\ vars_added' >= vars_added
     /\ softs_added' >= softs_added
     /\ Embeds(SubSeq(maxsat_formula'.hard, 1, clauses_added'), 1,
               solver'.clauses, 1)
     /\ \A u \in {updateSolver(Cur), resetSolver(Cur)} :
          /\ u.clauses_added = nHard(maxsat_formula)
          /\ u.vars_added = maxsat_formula.nVars
          /\ u.softs_added = nSoft(maxsat_formula)
          /\ Embeds(maxsat_formula.hard, 1, u.solver.clauses, 1)
     /\ LET u == updateSolver(Cur)
            n == Len(solver.clauses)
        IN /\ SubSeq(u.solver.clauses, 1, n) = solver.clauses
           /\ SubSeq(u.solver.clauses, n + 1, Len(u.solver.clauses))
                = SubSeq(maxsat_formula.hard, clauses_added + 1,
                         nHard(maxsat_formula))]_vars
\* an updateSolver has delivered the hard clauses of a relaxation, more than
\* one at a time, behind those of the input and of its standardisation
C17_RelaxationDelivered ==
  /\ Alive /\ nbCores > 0
  /\ clauses_added = nHard(maxsat_formula)
  /\ clauses_added >= nHard(costComputingFormula)
                       + nSoft(costComputingFormula) + 2
  /\ Len(solver.clauses) >= clauses_added

\* the linear search has just rebuilt the oracle
Rebuilt ==
  pc = "setPBencodings" /\ cfg.delete_before_lin /\ ~cfg.incrementalVarres

\* C18: resetSolver leaves an oracle that holds the hard clauses of the
\* formula store and nothing else; a second resetSolver right after the
\* first leaves the same oracle and the same counters; the formula store is
\* the same before and after.
C18_RebuildIdempotent ==
  /\ LET r == resetSolver(Cur)
         rr == resetSolver(r)
     IN /\ r.solver.clauses = maxsat_formula.hard
        /\ r.solver.pbs = <<>>
        /\ r.solver.nVars = maxsat_formula.nVars
        /\ rr.solver = r.solver
        /\ <<rr.clauses_added, rr.vars_added, rr.softs_added>>
             = <<r.clauses_added, r.vars_added, r.softs_added>>
        /\ r.maxsat_formula = maxsat_formula
        /\ rr.maxsat_formula = maxsat_formula
  /\ Rebuilt => /\ solver.clauses = maxsat_formula.hard
                /\ solver.pbs = <<>>
\* the linear search has rebuilt an oracle that held the clauses of a
\* relaxation
C18_RebuiltAfterCores ==
  /\ Rebuilt /\ nbCores > 0
  /\ nHard(maxsat_formula) >= nHard(costComputingFormula)
                                + nSoft(costComputingFormula) + 2
  /\ solver.clauses = maxsat_formula.hard

-----------------------------------------------------------------------------
(* The first stratum under the diversify strategy: setup on inputs of ten   *)
(* unit soft clauses of the weights 100, 50 and 10.                         *)

\* the weights of the ten soft clauses, in the order of the store
TenWeights == <<100, 100, 50, 50, 50, 10, 10, 10, 10, 10>>

\* a soft clauses of weight 100, then b of weight 50, the rest of weight 10
WeightRuns(a, b) ==
  [i \in 1..Len(TenWeights) |->
     IF i <= a THEN 100 ELSE IF i <= a + b THEN 50 ELSE 10]

DiversityInputs ==
  {Formula(NOrigVars, <<>>,
           [i \in 1..Len(TenWeights) |-> Soft(w[i], <<1>>, lit_Undef)]) :
     w \in {WeightRuns(a, b) : a \in 1..3, b \in 1..3}}

InitDiversity ==
  /\ \E f \in DiversityInputs :
       Holds(Constructed([Plain(0) EXCEPT
                            !.weightStrategy = _WEIGHT_DIVERSIFY_], f))
  /\ pc = "search"
  /\ status = "NONE"
  /\ release_build = FALSE

NextDiversity == RunSetup

SpecDiversity == InitDiversity /\ [][NextDiversity]_vars

\* the input has the ten weights 100, 100, 50, 50, 50, 10, 10, 10, 10, 10
TenInput ==
  [i \in 1..nSoft(costComputingFormula) |->
     costComputingFormula.soft[i].weight] = TenWeights
\* the weight w selects enough soft clauses for a first stratum
Diverse(w) ==
  LET n == Cardinality(SoftsAbove(Cur, w)) IN
  \/ RatioAboveAlpha(n, Cardinality(WeightsAbove(Cur, w)))
  \/ n = nRealSoft(Cur)

\* C19, as the specification has it: on the ten weights, under diversify,
\* setup's findNextWeightDiversity stops at the working weight 10.
C19_StopsAtTen ==
  (Alive /\ TenInput) => maxsat_formula.maxWeight = 10
\* C19, as the code has it: setup's findNextWeightDiversity stops at the
\* largest weight of the input that selects enough soft clauses; on the ten
\* weights that is 100, which selects 2 soft clauses of 1 weight (2/1 >
\* 1.25). The weights unchanged, the second call (nbSatisfiable 2, 2 soft
\* clauses assumed) stops at 50 (5/2) and the third (5 assumed) at 10 (10/3).
C19_StopsAtHundred ==
  Alive =>
    /\ Diverse(maxsat_formula.maxWeight)
    /\ \A i \in 1..nSoft(maxsat_formula) :
         LET w == maxsat_formula.soft[i].weight IN
         w > maxsat_formula.maxWeight => ~Diverse(w)
    /\ TenInput =>
         /\ maxsat_formula.maxWeight = 100
         /\ Cardinality(SoftsAbove(Cur, 100)) = 2
         /\ Cardinality(WeightsAbove(Cur, 100)) = 1
         /\ findNextWeightDiversity(
              [Cur EXCEPT !.nbSatisfiable = 2, !.nbCurrentSoft = 2], 100).w
              = 50
         /\ findNextWeightDiversity(
              [Cur EXCEPT !.nbSatisfiable = 3, !.nbCurrentSoft = 5], 50).w
              = 10
\* setup has chosen the first working weight for the ten weights, after its
\* one satisfiable call
C19_FirstStratum ==
  /\ pc = "weightDisjointCores" /\ TenInput
  /\ nbSatisfiable = 1 /\ nbCurrentSoft = 0
  /\ maxsat_formula.maxWeight = 100

\* setup evaluates findNextWeightDiversity (diversify) or
\* enoughSoftAboveWeight (varying resolution of the core-guided phase)
EvaluatesStratum ==
  cfg.varyingresCG \/ cfg.weightStrategy = _WEIGHT_DIVERSIFY_

\* C20: when setup evaluates findNextWeightDiversity or
\* enoughSoftAboveWeight, a call of the oracle has answered l_True before
\* (nbSatisfiable > 0), whatever the first call on the hard clauses answers.
C20_AfterSat ==
  [][(pc = "search" /\ pc' # "abort" /\ EvaluatesStratum)
       => nbSatisfiable' > 0]_vars

\* the core b of the relaxation, its d-variables and the assumption
\* literals of its new soft clauses, counted from 1
CoreB == solver.conflict
CoreD(i) == OldVars + i
CoreA(i) == OldVars + (Len(CoreB) - 1) + i
\* the hard clauses a relaxation is to add
ExpectedHard ==
  LET n == Len(CoreB) IN
  (IF cfg.lins = 0
     THEN {CoreB} \cup {<<-CoreD(i), CoreD(i + 1), CoreB[i + 1]>> :
                           i \in 1..(n - 2)}
     ELSE {})
  \cup {<<CoreD(i), -CoreB[i + 1]>> : i \in 1..(n - 2)}
  \cup {<<CoreD(i), -CoreD(i + 1)>> : i \in 1..(n - 2)}
  \cup (IF n >= 2 THEN {<<CoreD(n - 1), -CoreB[n]>>,
                         <<-CoreD(n - 1), CoreB[n]>>}
                  ELSE {})
  \cup {<<-CoreB[i], -CoreD(i), CoreA(i)>> : i \in 1..(n - 1)}

\* C21: for a core b_1..b_n, encodeMaxRes adds to the hard clauses, when
\* lins = 0, the core, the clauses (~d_i | d_(i+1) | b_(i+1)),
\* (d_i | ~b_(i+1)), (d_i | ~d_(i+1)) for the first n-2 indices and, for
\* n >= 2, (d_(n-1) | ~b_n) and (~d_(n-1) | b_n); when lins is 1 or 2 the
\* same without the core and without (~d_i | d_(i+1) | b_(i+1)); in every
\* mode (~b_i | ~d_i | a_i) for each new soft clause; each clause once.
\* A core of one literal adds the unit core when lins = 0, nothing else.
C21_HardAdded ==
  Relaxed
    => /\ NewHard = ExpectedHard
       /\ nHard(maxsat_formula) - OldHard = Cardinality(ExpectedHard)
       /\ Len(CoreB) = 1
            => NewHard = IF cfg.lins = 0 THEN {CoreB} ELSE {}
\* a core of the greatest size has been relaxed under lins = 0, with the
\* clauses of both directions
C21_BothDirections ==
  /\ Relaxed /\ cfg.lins = 0 /\ Len(CoreB) = MaxCore
  /\ nHard(maxsat_formula) - OldHard = 4 * MaxCore - 4

\* a step of weightDisjointCores in which the oracle has returned a conflict
CoreStep ==
  /\ pc = "weightDisjointCores" /\ pc' # "abort"
  /\ solver'.conflict # <<>> /\ us' # "UNKNOWN"
\* the soft clauses of the conflict of the step, and those among them whose
\* weight the step takes to 0
InConflict ==
  {i \in 1..nSoft(maxsat_formula) :
     maxsat_formula.soft[i].assumption_var \in Range(solver'.conflict)}
Exhausted ==
  {i \in InConflict : maxsat_formula'.soft[i].weight = 0}

\* C22: the relaxation of a conflict of the core-guided phase takes the
\* cost of the core (its least weight, 1 for an unweighted formula) from
\* the weight of each soft clause of the conflict and from no other; no
\* weight wraps and no assert of the step fails; a soft clause whose weight
\* becomes 0 gets the assumption lit_Undef and adds one to num_hardened;
\* in a weighted formula the weight of one soft clause at least becomes 0.
C22_CoreWeight ==
  [][/\ pc = "weightDisjointCores" => pc' # "abort"
     /\ CoreStep =>
          LET cost == lbCost' - lbCost IN
          /\ cost > 0
          /\ release_build' = release_build
          /\ Len(solver'.conflict) = Cardinality(InConflict)
          /\ \A i \in 1..nSoft(maxsat_formula) :
               /\ maxsat_formula.soft[i].weight
                    = maxsat_formula'.soft[i].weight
                      + (IF i \in InConflict THEN cost ELSE 0)
               /\ maxsat_formula.soft[i].weight
                    >= (IF i \in InConflict THEN cost ELSE 0)
          /\ \A i \in Exhausted :
               maxsat_formula'.soft[i].assumption_var = lit_Undef
          /\ num_hardened' = num_hardened + Cardinality(Exhausted)
          /\ maxsat_formula.problemType = _WEIGHTED_ => Exhausted # {}]_vars
\* a conflict of two soft clauses of different weights has been relaxed:
\* one weight is 0, the other is not
C22_PartlyExhausted ==
  /\ pc = "weightDisjointCores" /\ Len(solver.conflict) = 2
  /\ num_hardened = 1 /\ lbCost = 1
  /\ maxsat_formula.problemType = _WEIGHTED_
  /\ \E i \in 1..nSoft(costComputingFormula) :
       /\ maxsat_formula.soft[i].weight = 1
       /\ maxsat_formula.soft[i].assumption_var \in Range(solver.conflict)

\* a step of weightSearch or coreGuidedLinearSearch in which hardenClauses
\* has run, and the gap it has run with
HardenerRan ==
  /\ pc = "return" /\ pc' \notin {"abort", "done"}
  /\ us # "UNKNOWN"
  /\ Wrap(ubCost' - lbCost') < maxw_nothardened
Gap == Wrap(ubCost' - lbCost')
\* the Hardener has dealt with the first n soft clauses of the store
HardenedAmong(n) ==
  /\ \A i \in 1..n :
       /\ maxsat_formula'.soft[i].weight <= Gap
       /\ maxsat_formula.soft[i].weight > Gap
            => /\ maxsat_formula'.soft[i].weight = 0
               /\ maxsat_formula'.soft[i].assumption_var = lit_Undef
               /\ <<-maxsat_formula.soft[i].assumption_var>>
                    \in Range(solver'.clauses)
  /\ \A i \in 1..n : maxsat_formula'.soft[i].weight <= maxw_nothardened'
  /\ \/ maxw_nothardened' = 0
     \/ \E i \in 1..n : maxsat_formula'.soft[i].weight = maxw_nothardened'

\* C23, as the specification has it: when hardenClauses runs with the gap
\* ubCost - lbCost, it hardens every soft clause of the store whose weight
\* is above the gap; after it no soft clause of the store has a weight
\* above the gap and maxw_nothardened is the greatest weight left.
C23_AllHardened ==
  [][HardenerRan => HardenedAmong(nSoft(maxsat_formula))]_vars
\* C23, as the code has it: the same for the soft clauses below softs_added,
\* the ones the oracle knows; a soft clause of a relaxation that the last
\* updateSolver has not seen keeps its weight and does not count for
\* maxw_nothardened.
C23_AddedHardened ==
  [][HardenerRan => HardenedAmong(softs_added)]_vars
\* hardenClauses has hardened a soft clause and left one of a relaxation,
\* whose weight is above the gap
C23_LeftUnhardened ==
  /\ Alive /\ hardened_weight > 0
  /\ \E i \in 1..nSoft(maxsat_formula) :
       /\ i > nSoft(costComputingFormula)
       /\ maxsat_formula.soft[i].weight > Wrap(ubCost - lbCost)
       /\ maxsat_formula.soft[i].weight > maxw_nothardened

\* the soft clauses of weight equal to the gap that the step has hardened
HardenedAtGap ==
  {i \in 1..nSoft(maxsat_formula) :
     /\ maxsat_formula.soft[i].weight = Gap
     /\ maxsat_formula'.soft[i].weight = 0}

\* C24: a soft clause whose weight is the gap is hardened only if the saved
\* model, whose cost is ubCost, satisfies it, also when the model of the
\* last oracle call has not lowered ubCost.
C24_BestModelSatisfies ==
  [][HardenerRan =>
       \A i \in HardenedAtGap :
         LET l == maxsat_formula.soft[i].clause[1] IN
         var(l) <= model'.size => literalTrueInModel(l, model')]_vars

\* the weights of the soft clauses of the store, and the arguments
\* findNextWeight is tried with
StoreWeights ==
  {maxsat_formula.soft[i].weight : i \in 1..nSoft(maxsat_formula)}
WeightArgs == 0..(maxsat_formula.sumWeights + 1)

\* C25: findNextWeight(w) is the greatest weight of a soft clause of the
\* store that is below w and above 1, and 1 if there is none: soft clauses
\* of weight 0, 1, or w and more do not count, and the number of soft
\* clauses of one weight does not matter.
C25_GreatestBelow ==
  \A w \in WeightArgs :
    LET W == {v \in StoreWeights : 1 < v /\ v < w}
        r == findNextWeight(Cur, w)
    IN /\ W = {} => r = 1
       /\ W # {} => r \in W /\ \A v \in W : v <= r
\* the store has soft clauses of weight 0, of a weight w above 1 and of a
\* smaller weight above 1 that two of them share, which findNextWeight(w)
\* returns
C25_Between ==
  /\ Alive /\ 0 \in StoreWeights
  /\ \E w \in StoreWeights :
       /\ findNextWeight(Cur, w) > 1
       /\ \E i, j \in 1..nSoft(maxsat_formula) :
            /\ i # j
            /\ maxsat_formula.soft[i].weight = findNextWeight(Cur, w)
            /\ maxsat_formula.soft[j].weight = findNextWeight(Cur, w)

\* a step in which updateCurrentWeight has called findNextWeightDiversity:
\* setup, or a round of weightSearch that had nothing to hand to the oracle
DiversityCalled ==
  /\ cfg.weightStrategy = _WEIGHT_DIVERSIFY_ /\ ~cfg.varyingresCG
  /\ cfg.lins = 0
  /\ \/ pc = "search" /\ pc' # "abort"
     \/ /\ pc = "return" /\ pc' \in {"weightDisjointCores", "hang"}
        /\ clauses_added' = clauses_added
\* the weights findNextWeightDiversity(w) tries: w itself on the first call
\* after the satisfiable call of setup, then the weights of the store
\* below w, downwards, then 1; w alone if no call has been satisfiable
DiversityChain(w) ==
  LET below == {v \in {maxsat_formula'.soft[i].weight :
                         i \in 1..nSoft(maxsat_formula')} : 1 < v /\ v < w}
               \cup {1}
  IN IF nbSatisfiable' = 0 THEN {w}
     ELSE IF nbSatisfiable' = 1 THEN {w} \cup below
     ELSE below
\* the exit test of findNextWeightDiversity at the weight v
DiversityExit(v) ==
  LET S == {i \in 1..nSoft(maxsat_formula') :
              maxsat_formula'.soft[i].weight >= v}
      c == Cardinality(S)
      d == Cardinality({maxsat_formula'.soft[i].weight : i \in S})
  IN \/ d > 0 /\ 4 * c > 5 * d /\ c > nbCurrentSoft'
     \/ c = nSoft(maxsat_formula') - num_hardened'

\* C26: findNextWeightDiversity(w) ends, and returns the first weight v of
\* its chain at which more than 1.25 soft clauses for each weight are
\* selected, and more than nbCurrentSoft, or all nRealSoft() of them; the
\* chain is w (on the call with nbSatisfiable = 1 only), findNextWeight(w),
\* findNextWeight(findNextWeight(w)), and so on.
C26_FirstOfChain ==
  [][DiversityCalled =>
       LET K == {v \in DiversityChain(maxsat_formula.maxWeight) :
                   DiversityExit(v)}
       IN /\ pc' # "hang"
          /\ maxsat_formula'.maxWeight \in K
          /\ \A v \in K : v <= maxsat_formula'.maxWeight]_vars

\* a step of the core-guided phase, after setup
CoreGuidedStep ==
  pc \in {"weightDisjointCores", "return"} /\ pc' # "abort"
\* a round of weightSearch or coreGuidedLinearSearch that has called
\* updateCurrentWeight at a working weight above 1
Advance ==
  /\ pc = "return" /\ us # "UNKNOWN"
  /\ pc' \in {"weightDisjointCores", "linearSearch", "hang"}
  /\ maxsat_formula.maxWeight > 1
  /\ \/ cfg.lins = 1 /\ ~cfg.relaxBeforeStrat
     \/ clauses_added' = clauses_added

\* C27: in the core-guided phase, an updateCurrentWeight at a working
\* weight above 1 ends and leaves a smaller working weight, 1 at least,
\* under the normal, the diversify and the varying-resolution strategy; no
\* step of the phase raises the working weight.
C27_Descends ==
  [][/\ CoreGuidedStep
          => maxsat_formula'.maxWeight <= maxsat_formula.maxWeight
     /\ Advance => /\ pc' # "hang"
                   /\ maxsat_formula'.maxWeight < maxsat_formula.maxWeight
                   /\ maxsat_formula'.maxWeight >= 1]_vars
\* under the normal strategy the working weight is above 1 and below two
\* weights of the input: setup has set it to the second, an advance to the
\* third
C27_SecondAdvance ==
  /\ pc = "weightDisjointCores"
  /\ cfg.weightStrategy = _WEIGHT_NORMAL_ /\ ~cfg.varyingresCG
  /\ maxsat_formula.maxWeight > 1
  /\ \E i, j \in 1..nSoft(costComputingFormula) :
       /\ costComputingFormula.soft[i].weight
            > costComputingFormula.soft[j].weight
       /\ costComputingFormula.soft[j].weight > maxsat_formula.maxWeight

\* a round of the linear loop that has lowered the bound of the encoded
\* objective: the oracle has answered with a model of reduced cost above 0
BoundTightened == pc = "linearLoop" /\ pc' = "linearLoop"
\* the assignments the oracle may answer with after the round, and the
\* reduced cost of one of them
LaterAnswers == Models(AssumedPB(solver', assumptions'), {})
ReducedCostOf(tv) ==
  ReducedCost([maxsat_formula |-> maxsat_formula'],
              [size |-> solver'.nVars, tv |-> tv])

\* C28: when the linear loop has lowered the bound after a model of reduced
\* cost r > 0, the oracle can answer neither with that model again nor with
\* any assignment of reduced cost r or more, whether the objective is
\* encoded with its coefficients or, the coefficients being equal, as a
\* cardinality constraint.
C28_Excludes ==
  [][BoundTightened =>
       /\ solver'.model.tv \notin LaterAnswers
       /\ \A tv \in LaterAnswers :
            ReducedCostOf(tv) < ReducedCostOf(solver'.model.tv)]_vars

\* the driver is in linearSearch() and takes a step of it
InLinearPhase == pc \in {"linearSearch", "setPBencodings", "linearLoop"}
\* what the core-guided phase works on
CoreGuidedState ==
  <<lbCost, num_hardened, nbCores, maxsat_formula.nVars, maxsat_formula.hard,
    [i \in 1..nSoft(maxsat_formula) |->
       [k \in {"weight", "clause", "assumption_var"} |->
          maxsat_formula.soft[i][k]]]>>

ZeroWeight ==
  {i \in 1..nSoft(maxsat_formula) : maxsat_formula.soft[i].weight = 0}

\* C30: after standardisation num_hardened is the number of soft clauses of
\* weight 0, so that nRealSoft() is the number of soft clauses of weight
\* above 0; every step counts each clause that it brings to weight 0 once
\* and no clause that is at weight 0 already, and hardenClauses runs with a
\* gap of at least 1.
C30_CountsZeroWeight ==
  [][/\ num_hardened' = Cardinality(ZeroWeight')
     /\ nRealSoft(Cur)' = nSoft(maxsat_formula') - Cardinality(ZeroWeight')
     /\ (pc # "search" =>
           /\ ZeroWeight \subseteq ZeroWeight'
           /\ num_hardened' =
                num_hardened + Cardinality(ZeroWeight' \ ZeroWeight))
     /\ (HardenerRan => Gap >= 1)]_vars

\* cores have been relaxed and clauses hardened, and soft clauses of weight
\* above 0 remain
C30_BothCounted ==
  /\ Alive /\ nbCores >= 1 /\ hardened_weight > 0
  /\ num_hardened >= 2 /\ num_hardened < nSoft(maxsat_formula)

\* a round of weightSearch or coreGuidedLinearSearch that goes on with the
\* cores after updateCurrentWeight, the oracle not having been updated
StratificationAdvance ==
  /\ pc = "return" /\ us # "UNKNOWN"
  /\ pc' \in {"weightDisjointCores", "hang"}
  /\ clauses_added' = clauses_added
\* the linear loop has called updateDivisionFactorLinear to rebuild
LinearAdvance == pc = "linearLoop" /\ pc' = "setPBencodings"

\* C31: in every state after setup the working weight is 1 at least; the
\* stratification advance of the core-guided phase and
\* updateDivisionFactorLinear are called at a working weight above 1 only,
\* and the weight they and initializeDivisionFactor leave is 1 at least.
C31_WeightPositive ==
  [][/\ (pc' # "abort" => maxsat_formula'.maxWeight >= 1)
     /\ (StratificationAdvance => maxsat_formula.maxWeight > 1)
     /\ (LinearAdvance =>
           /\ maxsat_formula.maxWeight > 1
           /\ maxsat_formula'.maxWeight < maxsat_formula.maxWeight)]_vars

\* the linear loop has divided the working weight down to 1 under varying
\* resolution, soft clauses of a greater weight being in the store
C31_DividedToOne ==
  /\ pc = "setPBencodings" /\ cfg.varyingres /\ cfg.lins = 2
  /\ nbSatisfiable >= 2
  /\ maxsat_formula.maxWeight = 1
  /\ \E i \in 1..nSoft(maxsat_formula) : maxsat_formula.soft[i].weight > 1

\* the oracle sv holds the clause c
InOracle(sv, c) == \E k \in 1..Len(sv.clauses) : sv.clauses[k] = c
\* the step is a round of weightSearch or coreGuidedLinearSearch in which
\* hardenClauses has hardened soft clause i; the unit clause it has added,
\* the negated assumption literal, is the soft clause itself
HardenedNow(i) ==
  /\ pc = "return"
  /\ maxsat_formula.soft[i].weight > 0
  /\ maxsat_formula'.soft[i].weight = 0
\* the step runs resetSolver
ResetsOracle ==
  \/ pc = "linearSearch" /\ cfg.delete_before_lin /\ pc' # "abort"
  \/ LinearAdvance /\ ~cfg.incrementalVarres

\* C32: the unit clause of a hardened soft clause is in the oracle after
\* the hardening and in the oracle after every later step, resets of the
\* oracle included; and under lazy hardening no step resets the oracle.
C32_UnitsKept ==
  [][/\ \A i \in 1..nSoft(maxsat_formula) :
          /\ (HardenedNow(i) =>
                InOracle(solver', maxsat_formula.soft[i].clause))
          /\ ((/\ maxsat_formula.soft[i].weight = 0
               /\ InOracle(solver, maxsat_formula.soft[i].clause))
                => InOracle(solver', maxsat_formula.soft[i].clause))
     /\ ((~cfg.delete_before_lin /\ ~cfg.varyingres) => ~ResetsOracle)]_vars

\* the linear phase runs on an oracle that was reset after a hardening
C32_ResetAfterHardening ==
  /\ pc = "linearLoop" /\ cfg.lins = 1 /\ cfg.delete_before_lin
  /\ hardened_weight > 0

\* the states in which setPBencodings goes on to build the constraint: the
\* outcomes of its computeCostReducedWeights(bestModel) that do not send it
\* to a smaller working weight first
Building ==
  {r.s : r \in {q \in computeCostReducedWeights(Cur, TRUE) :
                  ~(q.cost = 0 /\ q.s.maxsat_formula.maxWeight > 1)}}

InSync ==
  /\ clauses_added = nHard(maxsat_formula)
  /\ vars_added = maxsat_formula.nVars
  /\ softs_added = nSoft(maxsat_formula)
\* the store has variables of relaxations, beyond those of the input and of
\* its standardisation
RelaxationVars ==
  maxsat_formula.nVars
    > costComputingFormula.nVars + nSoft(costComputingFormula)

\* C34: at the entry of the linear phase and at every construction of the
\* objective in it the oracle is in sync with the formula store: the three
\* counters equal the store's, every assumption literal of a soft clause is
\* a variable of the oracle and every hard clause of the store is in the
\* oracle.
C34_OracleInSync ==
  pc \in {"linearSearch", "setPBencodings"} =>
    /\ InSync
    /\ \A i \in 1..nSoft(maxsat_formula) :
         maxsat_formula.soft[i].assumption_var # lit_Undef
           => var(maxsat_formula.soft[i].assumption_var) <= solver.nVars
    /\ \A k \in 1..nHard(maxsat_formula) :
         InOracle(solver, maxsat_formula.hard[k])

\* the linear phase is entered from an interrupted core-guided phase that
\* has relaxed a core
C34_EnteredAfterCores ==
  /\ pc = "linearSearch" /\ cfg.lins = 1 /\ us = "UNKNOWN"
  /\ nbCores >= 1 /\ RelaxationVars

====
